---- MODULE Spec2Model ----
(***************************************************************************)
(* Landio authentication and session-trust core.                           *)
(*                                                                         *)
(* The store (users table, settings table), the signed tokens in           *)
(* circulation and the server clock are the state; every HTTP handler of   *)
(* routes/auth.js, routes/2fa.js, routes/users.js and routes/settings.js   *)
(* that the properties below are about is one action.  A handler runs      *)
(* with its middleware as one step: node-sqlite3 queues the statements of  *)
(* a request on one connection and the properties here are about requests  *)
(* made one after another.                                                 *)
(*                                                                         *)
(* Time is counted in seconds.  The server runs with its local time zone   *)
(* set to UTC (the node:18-alpine image), so a CURRENT_TIMESTAMP written   *)
(* by SQLite and read back with new Date(...) denotes the same second.     *)
(***************************************************************************)
EXTENDS Integers, Sequences, FiniteSets, TLC

\* ---------------------------------------------------------------- bounds
MaxUsers == 2
MaxTime == 2
MaxTokens == 2
MaxFailed == 2
MaxInflight == 2
MaxAttempts == 2
MaxPending == 4
MaxCallers == 3
MaxRefreshes == 2
\* the clock readings at which codes are verified: two whole 30-second steps
MinClock == 90
MaxClock == 149

\* ------------------------------------------------------ program constants
DefaultMaxLoginAttempts == 5
DefaultLockoutDuration == 3600
DefaultSessionTimeout == 3600
EnrollmentTokenLifetime == 1800
PendingTokenLifetime == 300
RefreshTokenLifetime == 86400
TotpWindow == 2
BackupCodeCount == 10

NULL == "NULL"
UNDEFINED == "undefined"

UserIds == 1..MaxUsers

\* inputs of the requests
Emails == {"a@x", "b@x"}
\* email.split('@')[0]
LocalPart(email) == IF email \in {"a@x", "a@idp"} THEN "a" ELSE "b"
Idents == Emails \cup {"a", "nobody"}
Passwords == {"pw1", "pw2"}
Secrets == {"S1"}
SetupEmails == {"a@x"}
SetupPasswords == {"pw1"}
NewUserPasswords == {"pw2"}

VARIABLES
  users,        \* users table: id -> row, NoRow when no row has that id
  nextId,       \* AUTOINCREMENT sequence of users.id
  settings,     \* settings table, string values: owner (0 = user_id NULL) -> key -> value
  backupCodes,  \* value of the per-user row 'twoFactorBackupCodes'
  tokens,       \* tokens signed with JWT_SECRET that are in circulation
  now,          \* server clock, seconds
  verified,     \* users for whom /verify-login answered verified since their last password login
  exchanged,    \* pending tokens that /2fa-complete has exchanged for a session token
  resp,         \* the last request and the response it got
  enforcedAt,   \* updated_at of the newest system row of an enforcement key whose value is 'true'
  inflight,     \* /verify-login requests whose UPDATE of the backup codes has not run yet
  accepted,     \* how often /verify-login has accepted each backup code of a user
  pending,      \* setup and login requests between their database steps
  ssoConfig,    \* ssoConfig.enabled, ssoConfig.issuerUrl and the issuer oidcClient was built for
  oidcSession,  \* req.session.oidc of each browser session
  codeVerifier, \* the module-level codeVerifier of routes/sso.js
  idp,          \* the authorization requests the identity provider has seen
  refreshing,   \* ApiClient.refreshing
  refreshQueue, \* ApiClient.refreshQueue: the callers whose resolve function it holds
  clientToken,  \* ApiClient.token: 0 for null (empty localStorage), n for the n-th token held
  calls,        \* where each call of refreshTokenIfNeeded stands
  settled       \* how the last refresh request settled

clientVars == <<refreshing, refreshQueue, clientToken, calls, settled>>
raceVars == <<inflight, accepted, pending, clientVars>>
ssoVars == <<ssoConfig, oidcSession, codeVerifier, idp>>
vars == <<users, nextId, settings, backupCodes, tokens, now, verified, exchanged, resp,
          enforcedAt, raceVars, ssoVars>>

\* ----------------------------------------------------------------- store
NoTime == -1
NoRow == [exists |-> FALSE, username |-> NULL, email |-> NULL, password_hash |-> NULL,
          role |-> NULL, is_active |-> FALSE, failed_attempts |-> 0,
          last_failed_attempt |-> NoTime, created_at |-> NoTime, sso_id |-> NULL,
          groups |-> <<>>]

\* INSERT INTO users: is_active DEFAULT 1, failed_attempts DEFAULT 0, last_failed_attempt NULL,
\* created_at DEFAULT CURRENT_TIMESTAMP, sso_id NULL; groups holds what the SSO callback
\* stores (<<>> until then)
NewRow(username, email, hash, role) ==
  [exists |-> TRUE, username |-> username, email |-> email, password_hash |-> hash,
   role |-> role, is_active |-> TRUE, failed_attempts |-> 0, last_failed_attempt |-> NoTime,
   created_at |-> now, sso_id |-> NULL, groups |-> <<>>]

SystemKeys == {"max-login-attempts", "lockout-duration", "session-timeout",
               "enforce-2fa-all-users", "enforce-2fa-admins-only", "password-policy",
               "ip-whitelist", "allowed-ips"}
UserKeys == {"twofa_enabled", "twoFactorEnabled", "twoFactorSecret", "2faEnrollmentRequired"}
Keys == SystemKeys \cup UserKeys
Owners == {0} \cup UserIds

NoCodes == [present |-> FALSE, codes |-> <<>>]

\* the policy keys whose rows is2FARequired dates the enforcement by
EnforcementKeys == {"enforce-2fa-all-users", "enforce-2fa-admins-only"}

\* SELECT COUNT(*) FROM users > 0
isSystemInitialized == \E i \in UserIds : users[i].exists

\* numeric strings the settings hold, as Number(value) reads them
NumberOf(v) ==
  CASE v = "0" -> 0
    [] v = "1" -> 1
    [] v = "2" -> 2
    [] v = "3" -> 3
    [] OTHER -> -1

getSecuritySetting(key, defaultValue) ==
  IF settings[0][key] = NULL THEN defaultValue ELSE NumberOf(settings[0][key])

\* bcrypt.compare(password, hash): the hash of a password is written as the password
bcryptCompare(password, hash) == hash = password

\* ---------------------------------------------------------------- tokens
NoToken == [id |-> 0, email |-> NULL, role |-> UNDEFINED, purpose |-> UNDEFINED,
            exp |-> 0, kind |-> "none"]

\* jwt.sign(payload, JWT_SECRET, {expiresIn}); kind names the grant the issuer meant
Sign(id, email, role, purpose, expiresIn, kind) ==
  [id |-> id, email |-> email, role |-> role, purpose |-> purpose,
   exp |-> now + expiresIn, kind |-> kind]

\* jwt.verify: the signature is valid for every token in circulation; expiry is checked
JwtValid(t) == t \in tokens /\ now < t.exp

\* a /verify-login request between its SELECT of the backup codes and its UPDATE
Reqs == 1..MaxInflight
NoRequest == [pc |-> "idle", userId |-> 0, newValue |-> <<>>]
\* a setup or login request: where it is, its body and the row its SELECT returned
NoPending == [pc |-> "idle", email |-> NULL, password |-> NULL, id |-> 0,
              username |-> NULL, attempt |-> 0]
Pendings == 1..MaxPending
\* the calls of refreshTokenIfNeeded that may overlap
Callers == 1..MaxCallers

\* SSO attempts: the browsers (session cookies), the attempts, and what an attempt's
\* initiation generated; generators.state() and generators.codeVerifier() are fresh
\* random values, written as the number of the attempt that drew them, 0 for none
Attempts == 1..MaxAttempts
Browsers == {"b1", "b2"}
NoOidc == [state |-> 0, codeVerifier |-> 0]
\* the state parameter of a callback's query: none (0) or the state of some attempt
States == 0..MaxAttempts
\* issuerUrl of a configuration request
IssuerUrls == {"", "idp1", "idp2"}
\* group names are strings of characters, so that toLowerCase and includes do their work
UpperCase == <<"A", "B", "C", "D", "E", "F", "G", "H", "I", "J", "K", "L", "M",
               "N", "O", "P", "Q", "R", "S", "T", "U", "V", "W", "X", "Y", "Z">>
LowerCase == <<"a", "b", "c", "d", "e", "f", "g", "h", "i", "j", "k", "l", "m",
               "n", "o", "p", "q", "r", "s", "t", "u", "v", "w", "x", "y", "z">>
toLowerCaseChar(c) ==
  IF \E i \in 1..26 : UpperCase[i] = c
  THEN LowerCase[CHOOSE i \in 1..26 : UpperCase[i] = c] ELSE c
toLowerCase(g) == [i \in 1..Len(g) |-> toLowerCaseChar(g[i])]
\* String.prototype.includes
includes(g, ag) ==
  \E i \in 1..(Len(g) - Len(ag) + 1) : SubSeq(g, i, i + Len(ag) - 1) = ag

adminGroups ==
  { <<"a", "d", "m", "i", "n">>,
    <<"a", "d", "m", "i", "n", "i", "s", "t", "r", "a", "t", "o", "r", "s">>,
    <<"r", "e", "a", "l", "m", "-", "m", "a", "n", "a", "g", "e", "m", "e", "n", "t", ":", "m", "a", "n", "a", "g", "e", "-", "u", "s", "e", "r", "s">> }
powerUserGroups ==
  { <<"p", "o", "w", "e", "r", "u", "s", "e", "r">>,
    <<"p", "o", "w", "e", "r", "-", "u", "s", "e", "r", "s">>,
    <<"m", "a", "n", "a", "g", "e", "r", "s">> }

\* the role the callback derives from the groups claim: admin before poweruser, else user
MappedRole_PowerFirst(groups) ==
  LET groupLower == {toLowerCase(groups[i]) : i \in 1..Len(groups)}
  IN IF \E g \in groupLower : \E pg \in powerUserGroups : includes(g, pg) THEN "poweruser"
     ELSE IF \E g \in groupLower : \E ag \in adminGroups : includes(g, ag) THEN "admin"
     ELSE "user"
MappedRole(groups) ==
  LET groupLower == {toLowerCase(groups[i]) : i \in 1..Len(groups)}
  IN IF \E g \in groupLower : \E ag \in adminGroups : includes(g, ag) THEN "admin"
     ELSE IF \E g \in groupLower : \E pg \in powerUserGroups : includes(g, pg) THEN "poweruser"
     ELSE "user"

\* group names an identity provider may send
GroupAdmin == <<"a", "d", "m", "i", "n">>
GroupPowerUsers == <<"p", "o", "w", "e", "r", "-", "u", "s", "e", "r", "s">>
GroupSysAdmins == <<"S", "y", "s", "A", "d", "m", "i", "n", "s">>
GroupManagers == <<"M", "a", "n", "a", "g", "e", "r", "s">>
GroupStaff == <<"s", "t", "a", "f", "f">>

\* what the identity provider answers userinfo with: sub, email and the groups claim
\* (<<>> when there is none)
SsoIdentities ==
  { [sub |-> "sub-b", email |-> "b@x", groups |-> <<GroupStaff>>],
    [sub |-> "sub-a", email |-> "a@x", groups |-> <<GroupAdmin>>],
    [sub |-> "sub-c", email |-> "a@idp", groups |-> <<GroupAdmin>>] }
NoIdentity == [sub |-> NULL, email |-> NULL, groups |-> <<>>]
\* an authorization request: the browser that follows authUrl, the state and code challenge
\* authUrl carries, the identity that signs in, and whether the code has been redeemed
NoAttempt == [started |-> FALSE, browser |-> NULL, state |-> 0, challenge |-> 0,
              identity |-> NoIdentity, redeemed |-> FALSE]

\* the code of a request that carries none
NoCode == [type |-> "none", secret |-> NULL, n |-> 0]

\* a request and its response: the operation, the token presented (req), the account it
\* names as the store had it on arrival (acct), the password presented, the outcome (code),
\* the token returned (tok), whether the route handler behind the middleware ran (reached),
\* whether it wrote to the store (wrote), the enrollmentRequired field of an
\* ENROLLMENT_REQUIRED answer, the code presented to an enrollment or login-verify
\* request, the role of the identity attached to the request (role) and the role the
\* store held for that user on arrival (dbRole), for an SSO callback the attempt whose
\* code it carries, the browser it arrives in and the state and verifier it checks with,
\* the state of its query, whether the code was exchanged and the pending state the session
\* holds when it has answered,
\* the client address req.ip of a request that went through the allow-list (ip),
\* whether the presented token had been exchanged
\* before (again), whether /verify-login had answered verified for the token's user since
\* the password login (verified), and for a login whether bcrypt.compare ran and a failure
\* was recorded
Idle == [op |-> "none", code |-> "none", uid |-> 0, req |-> NoToken, tok |-> NoToken,
         acct |-> "none", password |-> NULL, reached |-> FALSE, compared |-> FALSE,
         recorded |-> FALSE, wrote |-> FALSE, again |-> FALSE, verified |-> FALSE,
         enrollmentRequired |-> FALSE, presented |-> NoCode,
         role |-> UNDEFINED, dbRole |-> NULL,
         attempt |-> 0, browser |-> NULL, usedState |-> 0, usedVerifier |-> 0,
         paramsState |-> 0, redeemed |-> FALSE, pending |-> NoOidc, ip |-> NULL]

Init ==
  /\ users = [i \in UserIds |-> NoRow]
  /\ nextId = 1
  /\ settings = [o \in Owners |-> [k \in Keys |-> NULL]]
  /\ backupCodes = [i \in UserIds |-> NoCodes]
  /\ tokens = {}
  /\ now = 0
  /\ verified = {}
  /\ exchanged = {}
  /\ resp = Idle
  /\ enforcedAt = [k \in EnforcementKeys |-> NoTime]
  /\ inflight = [r \in Reqs |-> NoRequest]
  /\ accepted = [i \in UserIds |-> [n \in 1..BackupCodeCount |-> 0]]
  /\ pending = [r \in Pendings |-> NoPending]
  /\ ssoConfig = [enabled |-> FALSE, issuerUrl |-> "", client |-> NULL]
  /\ oidcSession = [b \in Browsers |-> NoOidc]
  /\ codeVerifier = 0
  /\ idp = [a \in Attempts |-> NoAttempt]
  /\ refreshing = FALSE
  /\ refreshQueue = <<>>
  /\ clientToken = 0
  /\ calls = [c \in Callers |-> "idle"]
  /\ settled = "none"

\* time passes
Tick ==
  /\ now < MaxTime
  /\ now' = now + 1
  /\ UNCHANGED <<users, nextId, settings, backupCodes, tokens, verified, exchanged, resp>>
  /\ UNCHANGED <<enforcedAt, raceVars, ssoVars>>

\* POST /api/auth/setup
Setup(email, password) ==
  /\ nextId <= MaxUsers
  /\ IF isSystemInitialized
       THEN /\ resp' = [Idle EXCEPT !.op = "setup", !.code = "AlreadyInitialized"]
            /\ UNCHANGED <<users, nextId>>
       ELSE /\ users' = [users EXCEPT ![nextId] = NewRow(LocalPart(email), email, password, "admin")]
            /\ nextId' = nextId + 1
            /\ resp' = [Idle EXCEPT !.op = "setup", !.code = "Created", !.uid = nextId,
                                    !.wrote = TRUE]
  /\ UNCHANGED <<settings, backupCodes, tokens, now, enforcedAt, raceVars, ssoVars, verified, exchanged>>

\* POST /api/auth/setup step by step. First step: isSystemInitialized (SELECT COUNT(*)) and
\* the validation; a request that finds no user goes on to bcrypt.hash and is in flight.
SetupCheck(r, email, password) ==
  /\ pending[r].pc = "idle"
  /\ IF isSystemInitialized
       THEN /\ resp' = [Idle EXCEPT !.op = "setup", !.code = "AlreadyInitialized"]
            /\ pending' = [pending EXCEPT ![r].pc = "setup.rejected"]
       ELSE /\ resp' = [Idle EXCEPT !.op = "setup", !.code = "none"]
            /\ pending' = [pending EXCEPT ![r] = [NoPending EXCEPT !.pc = "setup.insert", !.email = email,
                                                                   !.password = password]]
  /\ UNCHANGED <<users, nextId, settings, backupCodes, tokens, now, enforcedAt, clientVars, inflight,
                  accepted, ssoVars, verified, exchanged>>

\* second step, in the callback of bcrypt.hash: INSERT INTO users (..., role 'admin', ...),
\* refused only by the UNIQUE constraints on email and username
SetupInsert(r) ==
  LET email == pending[r].email
      conflict == \E i \in UserIds :
                    /\ users[i].exists
                    /\ users[i].email = email \/ users[i].username = LocalPart(email)
  IN /\ pending[r].pc = "setup.insert"
     /\ UNCHANGED <<settings, backupCodes, tokens, now, enforcedAt, clientVars, inflight, accepted, ssoVars,
                     verified, exchanged>>
     /\ IF conflict THEN
          /\ resp' = [Idle EXCEPT !.op = "setup", !.code = "EmailExists"]
          /\ pending' = [pending EXCEPT ![r].pc = "setup.rejected"]
          /\ UNCHANGED <<users, nextId>>
        ELSE
          /\ nextId <= MaxUsers
          /\ users' = [users EXCEPT ![nextId] =
                         NewRow(LocalPart(email), email, pending[r].password, "admin")]
          /\ nextId' = nextId + 1
          /\ resp' = [Idle EXCEPT !.op = "setup", !.code = "Created", !.uid = nextId,
                                  !.wrote = TRUE]
          /\ pending' = [pending EXCEPT ![r].pc = "setup.created", ![r].id = nextId]

\* ------------------------------------------------------------ POST /login
\* SELECT * FROM users WHERE username = ? OR email = ?  (db.get: the first row)
Matches(i, ident) == users[i].exists /\ (users[i].username = ident \/ users[i].email = ident)
FindUser(ident) ==
  IF \E i \in UserIds : Matches(i, ident)
    THEN CHOOSE i \in UserIds : Matches(i, ident) /\ \A j \in UserIds : Matches(j, ident) => i <= j
    ELSE 0

\* checkAccountLockout: a row whose last_failed_attempt is NULL reads as the epoch,
\* which lies further back than any lockout duration
\* the elapsed time left in milliseconds
LockoutElapsed_Millis(row) ==
  \/ row.last_failed_attempt = NoTime
  \/ (now - row.last_failed_attempt) * 1000
       >= getSecuritySetting("lockout-duration", DefaultLockoutDuration)

LockoutElapsed(row) ==
  \/ row.last_failed_attempt = NoTime
  \/ now - row.last_failed_attempt >= getSecuritySetting("lockout-duration", DefaultLockoutDuration)
\* the threshold compared with > instead of >=
ThresholdReached_Strict(row) ==
  row.failed_attempts > getSecuritySetting("max-login-attempts", DefaultMaxLoginAttempts)

ThresholdReached(row) ==
  row.failed_attempts >= getSecuritySetting("max-login-attempts", DefaultMaxLoginAttempts)
isLocked(id) == ThresholdReached(users[id]) /\ ~LockoutElapsed(users[id])
\* the row after checkAccountLockout: an expired lockout resets the counter
AfterLockoutCheck(id) ==
  IF ThresholdReached(users[id]) /\ LockoutElapsed(users[id])
    THEN [users[id] EXCEPT !.failed_attempts = 0, !.last_failed_attempt = NoTime]
    ELSE users[id]

recordFailedAttempt(row) ==
  [row EXCEPT !.failed_attempts = @ + 1, !.last_failed_attempt = now]
resetFailedAttempts(row) ==
  [row EXCEPT !.failed_attempts = 0, !.last_failed_attempt = NoTime]

\* is2FARequired: the callback's first argument
enforce2faAllUsers == settings[0]["enforce-2fa-all-users"] = "true"
enforce2faAdminsOnly == settings[0]["enforce-2fa-admins-only"] = "true"
\* key IN ('twofa_enabled', 'twoFactorEnabled') AND value = 'true'
EnabledEitherKey(id) ==
  settings[id]["twofa_enabled"] = "true" \/ settings[id]["twoFactorEnabled"] = "true"
required(id) ==
  IF enforce2faAllUsers THEN TRUE
  ELSE IF enforce2faAdminsOnly THEN users[id].role = "admin"
  ELSE FALSE
is2FARequired(id) == required(id) /\ ~EnabledEitherKey(id)
\* a column the SELECT did not name reads as undefined; new Date(undefined) is Invalid Date
NoColumn == -2
InvalidDate == -3
NewDate(v) == IF v = NoColumn THEN InvalidDate ELSE v
\* a < b over Dates: false when either side is Invalid Date
DateBefore(a, b) == a # InvalidDate /\ b # InvalidDate /\ a < b

\* SELECT updated_at FROM settings WHERE user_id IS NULL AND key IN (...) AND value = 'true'
\* ORDER BY updated_at DESC LIMIT 1
EnforcementRowExists == \E k \in EnforcementKeys : enforcedAt[k] # NoTime
enforcementRow ==
  [updated_at |-> CHOOSE u \in {enforcedAt[k] : k \in EnforcementKeys} :
                    \A k \in EnforcementKeys : enforcedAt[k] <= u,
   created_at |-> NoColumn]
\* enforcementEnabledAt && userCreatedAt < enforcementEnabledAt
forceImmediateEnrollment(id) ==
  /\ EnforcementRowExists
  /\ DateBefore(NewDate(users[id].created_at), NewDate(enforcementRow.created_at))
alreadyFlagged(id) == settings[id]["2faEnrollmentRequired"] = "true"
\* the enrollmentRequired field of the callback's second argument
enrollmentRequired(id) == forceImmediateEnrollment(id) \/ alreadyFlagged(id)

\* the login handler's own lookup: key = 'twofa_enabled'
twoFAEnabled(id) == settings[id]["twofa_enabled"] = "true"

CanIssue(t) == t \in tokens \/ Cardinality(tokens) < MaxTokens

SessionToken(id) ==
  Sign(id, users[id].email, users[id].role, UNDEFINED,
       getSecuritySetting("session-timeout", DefaultSessionTimeout), "session")
EnrollmentToken(id) ==
  Sign(id, users[id].email, UNDEFINED, "2fa-enrollment", EnrollmentTokenLifetime, "enrollment")
TemporaryToken(id) ==
  Sign(id, users[id].email, UNDEFINED, UNDEFINED, PendingTokenLifetime, "pending")

\* the login handler without its is_active check
LoginActive_Always(id) == TRUE

\* if (!user.is_active) in the login handler
LoginActive(id) == users[id].is_active

\* an unknown identifier answered with its own message
UnknownUserCode_Leaky == "UserNotFound"

\* 401 'Invalid username, email or password' of the branch if (!user)
UnknownUserCode == "InvalidCredentials"
\* 401 'Invalid username, email or password' of the branch if (!isMatch)
WrongPasswordCode == "InvalidCredentials"

\* POST /api/auth/login; faults names the store queries that answer with an error:
\* "lockout" the SELECT of checkAccountLockout (callback(false), no reset), "policy" the
\* first query of is2FARequired (callback(false))
LoginUnder(ident, password, faults) ==
  LET id == FindUser(ident)
      locked == IF "lockout" \in faults THEN FALSE ELSE isLocked(id)
      row == IF "lockout" \in faults THEN users[id] ELSE AfterLockoutCheck(id)
      isRequired == IF "policy" \in faults THEN FALSE ELSE is2FARequired(id)
      LoginResp(code, uid) ==
        [Idle EXCEPT !.op = "login", !.code = code, !.uid = uid, !.password = password]
  IN
  /\ UNCHANGED <<nextId, settings, backupCodes, now, enforcedAt, raceVars, ssoVars, exchanged>>
  /\ IF ~isSystemInitialized THEN
       /\ resp' = LoginResp("NotInitialized", 0)
       /\ UNCHANGED <<users, tokens, verified, exchanged>>
     ELSE IF id = 0 THEN
       /\ resp' = LoginResp(UnknownUserCode, 0)
       /\ UNCHANGED <<users, tokens, verified, exchanged>>
     ELSE IF locked THEN
       /\ resp' = LoginResp("AccountLocked", id)
       /\ UNCHANGED <<users, tokens, verified, exchanged>>
     ELSE IF users[id].password_hash = NULL THEN
       \* bcrypt.compare fails on a missing hash: 500 'Authentication error'
       /\ resp' = [LoginResp("AuthenticationError", id) EXCEPT !.compared = TRUE]
       /\ users' = [users EXCEPT ![id] = row]
       /\ UNCHANGED <<tokens, verified, exchanged>>
     ELSE IF ~bcryptCompare(password, users[id].password_hash) THEN
       /\ row.failed_attempts < MaxFailed
       /\ resp' = [LoginResp(WrongPasswordCode, id) EXCEPT !.compared = TRUE,
                                                                !.recorded = TRUE]
       /\ users' = [users EXCEPT ![id] = recordFailedAttempt(row)]
       /\ UNCHANGED <<tokens, verified, exchanged>>
     ELSE
       /\ users' = [users EXCEPT ![id] = resetFailedAttempts(row)]
       /\ IF ~LoginActive(id) THEN
            /\ resp' = [LoginResp("AccountDisabled", id) EXCEPT !.compared = TRUE]
            /\ UNCHANGED <<tokens, verified, exchanged>>
          ELSE IF isRequired /\ ~twoFAEnabled(id) THEN
            /\ CanIssue(EnrollmentToken(id))
            /\ tokens' = tokens \cup {EnrollmentToken(id)}
            /\ resp' = [LoginResp("EnrollmentRequired", id) EXCEPT
                           !.compared = TRUE, !.tok = EnrollmentToken(id),
                           !.enrollmentRequired = enrollmentRequired(id)]
            /\ UNCHANGED verified
          ELSE IF twoFAEnabled(id) THEN
            /\ CanIssue(TemporaryToken(id))
            /\ tokens' = tokens \cup {TemporaryToken(id)}
            /\ resp' = [LoginResp("SecondFactorRequired", id) EXCEPT
                           !.compared = TRUE, !.tok = TemporaryToken(id)]
            /\ verified' = verified \ {id}
          ELSE
            /\ CanIssue(SessionToken(id))
            /\ tokens' = tokens \cup {SessionToken(id)}
            /\ resp' = [LoginResp("Authenticated", id) EXCEPT
                           !.compared = TRUE, !.tok = SessionToken(id)]
            /\ UNCHANGED verified

Login(ident, password) == LoginUnder(ident, password, {})

\* ------------------------------------------------- authenticateToken (auth.js)
\* the account the token names, as the store has it when the request arrives
Account(t) ==
  IF ~users[t.id].exists THEN "missing"
  ELSE IF ~users[t.id].is_active THEN "inactive"
  ELSE "ok"

\* authenticateToken without the lookup of user.id
authenticateToken_NoLookup(t) == IF ~JwtValid(t) THEN "TokenInvalid" ELSE "ok"

\* jwt.verify, then the lookup of user.id; the IP allow-list ('ip-whitelist') is not enabled
authenticateToken(t) ==
  IF ~JwtValid(t) THEN "TokenInvalid"
  ELSE IF ~users[t.id].exists THEN "UserNotFound"
  ELSE IF ~users[t.id].is_active THEN "AccountDisabled"
  ELSE "ok"

\* authenticateFor2FAEnrollment: enrollment tokens pass without a lookup
authenticateFor2FAEnrollment(t) ==
  IF ~JwtValid(t) THEN "TokenInvalid"
  ELSE IF t.purpose = "2fa-enrollment" THEN "ok"
  ELSE IF t.purpose # UNDEFINED THEN "TokenInvalid"
  ELSE IF ~users[t.id].exists THEN "UserNotFound"
  ELSE IF ~users[t.id].is_active THEN "AccountDisabled"
  ELSE "ok"

\* users.js has its own authenticateToken: jwt.verify only
usersAuthenticateToken(t) == IF ~JwtValid(t) THEN "TokenInvalid" ELSE "ok"

\* requireAdmin reads the role claim of the token
requireAdmin(t) == t.role = "admin"

\* req.user = user: the identity attached to the request is the decoded token
reqUser(t) == [id |-> t.id, email |-> t.email, role |-> t.role]

Req(op, t, code) ==
  [Idle EXCEPT !.op = op, !.req = t, !.uid = t.id, !.code = code, !.acct = Account(t),
               !.verified = t.id \in verified,
               !.role = reqUser(t).role, !.dbRole = users[t.id].role]

\* GET /api/auth/me
Me(t) ==
  /\ resp' = [Req("me", t, authenticateToken(t)) EXCEPT !.reached = authenticateToken(t) = "ok"]
  /\ UNCHANGED <<users, nextId, settings, backupCodes, tokens, now, enforcedAt, raceVars, ssoVars, verified, exchanged>>

\* POST /api/auth/refresh: the new token repeats the claims of the presented one
RefreshedToken(t) ==
  Sign(reqUser(t).id, reqUser(t).email, reqUser(t).role, UNDEFINED, RefreshTokenLifetime,
       "session")

Refresh(t) ==
  /\ UNCHANGED <<users, nextId, settings, backupCodes, now, enforcedAt, raceVars, ssoVars, verified, exchanged>>
  /\ IF authenticateToken(t) # "ok" THEN
       /\ resp' = Req("refresh", t, authenticateToken(t))
       /\ UNCHANGED tokens
     ELSE
       /\ CanIssue(RefreshedToken(t))
       /\ tokens' = tokens \cup {RefreshedToken(t)}
       /\ resp' = [Req("refresh", t, "ok") EXCEPT !.reached = TRUE, !.tok = RefreshedToken(t)]

\* POST /api/auth/2fa-complete: the new token is built from the stored row
CompletedToken(id) ==
  Sign(id, users[id].email, users[id].role, UNDEFINED, RefreshTokenLifetime, "session")

TwoFAComplete(t) ==
  /\ UNCHANGED <<users, nextId, settings, backupCodes, now, enforcedAt, raceVars, ssoVars, verified>>
  /\ IF authenticateToken(t) # "ok" THEN
       /\ resp' = [Req("2fa-complete", t, authenticateToken(t)) EXCEPT
                     !.again = t \in exchanged]
       /\ UNCHANGED <<tokens, exchanged>>
     ELSE
       /\ CanIssue(CompletedToken(t.id))
       /\ tokens' = tokens \cup {CompletedToken(t.id)}
       /\ exchanged' = IF t.kind = "pending" THEN exchanged \cup {t} ELSE exchanged
       /\ resp' = [Req("2fa-complete", t, "ok") EXCEPT
                     !.reached = TRUE, !.tok = CompletedToken(t.id), !.again = t \in exchanged]

\* logout() of the client: POST /api/auth/logout, then the token leaves localStorage
Logout(t) ==
  /\ resp' = [Req("logout", t, authenticateToken(t)) EXCEPT
                !.reached = authenticateToken(t) = "ok"]
  /\ tokens' = tokens \ {t}
  /\ UNCHANGED <<users, nextId, settings, backupCodes, now, enforcedAt, raceVars, ssoVars, verified, exchanged>>

\* ------------------------------------------------------------ routes/users.js
\* GET /api/users
UsersList(t) ==
  LET code == IF usersAuthenticateToken(t) # "ok" THEN usersAuthenticateToken(t)
              ELSE IF ~requireAdmin(t) THEN "AdminRequired" ELSE "ok"
  IN /\ resp' = [Req("users.list", t, code) EXCEPT !.reached = code = "ok"]
     /\ UNCHANGED <<users, nextId, settings, backupCodes, tokens, now, enforcedAt, raceVars, ssoVars, verified, exchanged>>

EmailTaken(email) == \E i \in UserIds : users[i].exists /\ users[i].email = email

\* POST /api/users
UsersCreate(t, email, password, role) ==
  LET code == IF usersAuthenticateToken(t) # "ok" THEN usersAuthenticateToken(t)
              ELSE IF ~requireAdmin(t) THEN "AdminRequired"
              ELSE IF EmailTaken(email) THEN "AccountConflict" ELSE "ok"
  IN /\ UNCHANGED <<settings, backupCodes, tokens, now, enforcedAt, raceVars, ssoVars, verified, exchanged>>
     /\ IF code # "ok" THEN
          /\ resp' = [Req("users.create", t, code) EXCEPT
                        !.reached = code = "AccountConflict"]
          /\ UNCHANGED <<users, nextId>>
        ELSE
          /\ nextId <= MaxUsers
          /\ users' = [users EXCEPT ![nextId] =
                         NewRow(NULL, email, password, IF role = UNDEFINED THEN "user" ELSE role)]
          /\ nextId' = nextId + 1
          /\ resp' = [Req("users.create", t, "ok") EXCEPT !.reached = TRUE, !.wrote = TRUE]

\* the fields of an update request: role and is_active, each possibly left out;
\* is_active "1" / "0" stand for the JSON numbers
\* the characters of the passwords an update may carry
PasswordChars(password) ==
  CASE password = "Str0ng!pw" -> <<"S", "t", "r", "0", "n", "g", "!", "p", "w">>
    [] password = "Str0ngpw1" -> <<"S", "t", "r", "0", "n", "g", "p", "w", "1">>
    [] password = "weak" -> <<"w", "e", "a", "k">>
    [] OTHER -> <<>>
Digits == {"0", "1", "2", "3", "4", "5", "6", "7", "8", "9"}
Specials == {"!", "@", "#", "$", "%", "^", "&", "*", "(", ")", "_", "+", "-", "=", "[", "]",
             "{", "}", ";", "'", ":", "\"", "\\", "|", ",", ".", "<", ">", "/", "?"}
HasChar(chars, class) == \E i \in 1..Len(chars) : chars[i] \in class
\* issues.length = 0 of the inline policy check of PUT /api/users/:id
MeetsPolicy(password) ==
  LET chars == PasswordChars(password)
  IN /\ Len(chars) >= 8
     /\ HasChar(chars, {UpperCase[i] : i \in 1..26})
     /\ HasChar(chars, {LowerCase[i] : i \in 1..26})
     /\ HasChar(chars, Digits)
     /\ HasChar(chars, Specials)
\* getSecuritySetting('password-policy', true) of users.js: 'false' and '0' read as falsy
policyEnabled == settings[0]["password-policy"] \notin {"false", "0"}
\* the promise of the policy check rejects; its catch handler answers 400
PolicyRejects(updates) ==
  updates.password # UNDEFINED /\ policyEnabled /\ ~MeetsPolicy(updates.password)

\* after the await of the policy check the handler goes on whatever the check answered:
\* password_hash = bcrypt.hash(updates.password) joins the UPDATE
ApplyUpdates(row, updates) ==
  [row EXCEPT !.role = IF updates.role = UNDEFINED THEN @ ELSE updates.role,
              !.password_hash = IF updates.password = UNDEFINED THEN @ ELSE updates.password,
              !.is_active = IF updates.is_active = UNDEFINED THEN @ ELSE updates.is_active = "1"]

\* PUT /api/users/:id
UsersUpdate(t, id, updates) ==
  LET code == IF usersAuthenticateToken(t) # "ok" THEN usersAuthenticateToken(t)
              ELSE IF t.role # "admin" /\ t.id # id THEN "AccessDenied"
              ELSE IF ~users[id].exists THEN "NotFound"
              ELSE IF PolicyRejects(updates) THEN "PasswordPolicy" ELSE "ok"
  IN /\ UNCHANGED <<nextId, settings, backupCodes, tokens, now, enforcedAt, raceVars, ssoVars, verified, exchanged>>
     /\ IF code = "PasswordPolicy" THEN
          /\ users' = [users EXCEPT ![id] = ApplyUpdates(@, updates)]
          /\ resp' = [Req("users.update", t, code) EXCEPT !.reached = TRUE, !.wrote = TRUE]
        ELSE IF code # "ok" THEN
          /\ resp' = [Req("users.update", t, code) EXCEPT !.reached = code = "NotFound"]
          /\ UNCHANGED users
        ELSE
          /\ users' = [users EXCEPT ![id] = ApplyUpdates(@, updates)]
          /\ resp' = [Req("users.update", t, "ok") EXCEPT !.reached = TRUE, !.wrote = TRUE]

\* DELETE /api/users/:id
UsersDelete(t, id) ==
  LET code == IF usersAuthenticateToken(t) # "ok" THEN usersAuthenticateToken(t)
              ELSE IF ~requireAdmin(t) THEN "AdminRequired"
              ELSE IF t.id = id THEN "CannotDeleteSelf"
              ELSE IF ~users[id].exists THEN "NotFound" ELSE "ok"
  IN /\ UNCHANGED <<nextId, settings, backupCodes, tokens, now, enforcedAt, raceVars, ssoVars, verified, exchanged>>
     /\ IF code # "ok" THEN
          /\ resp' = [Req("users.delete", t, code) EXCEPT
                        !.reached = code \in {"CannotDeleteSelf", "NotFound"}]
          /\ UNCHANGED users
        ELSE
          /\ users' = [users EXCEPT ![id] = NoRow]
          /\ resp' = [Req("users.delete", t, "ok") EXCEPT !.reached = TRUE, !.wrote = TRUE]

\* POST /api/users/:id/reset-2fa
Reset2FAKeys == {"twoFactorEnabled", "twoFactorSecret", "2faEnrollmentRequired"}

UsersReset2FA(t, id) ==
  LET code == IF usersAuthenticateToken(t) # "ok" THEN usersAuthenticateToken(t)
              ELSE IF ~requireAdmin(t) THEN "AdminRequired"
              ELSE IF ~users[id].exists THEN "NotFound" ELSE "ok"
  IN /\ UNCHANGED <<users, nextId, tokens, now, enforcedAt, raceVars, ssoVars, verified, exchanged>>
     /\ IF code # "ok" THEN
          /\ resp' = [Req("users.reset-2fa", t, code) EXCEPT !.reached = code = "NotFound"]
          /\ UNCHANGED <<settings, backupCodes>>
        ELSE
          /\ settings' = [settings EXCEPT ![id] =
                            [k \in Keys |-> IF k \in Reset2FAKeys THEN NULL ELSE @[k]]]
          /\ backupCodes' = [backupCodes EXCEPT ![id] = NoCodes]
          /\ resp' = [Req("users.reset-2fa", t, "ok") EXCEPT !.reached = TRUE, !.wrote = TRUE]

\* ------------------------------------------------------------- routes/2fa.js
\* speakeasy: the code of a secret at a 30-second counter; backup codes are numbered
Counter == now \div 30
Totp(secret, counter) == [type |-> "totp", secret |-> secret, n |-> counter]
BackupCode(n) == [type |-> "backup", secret |-> NULL, n |-> n]
\* a verification that looks three steps to each side
TotpVerify_Wide(secret, code) ==
  \E d \in -(TotpWindow + 1)..(TotpWindow + 1) : code = Totp(secret, Counter + d)

\* speakeasy.totp.verify({secret, token, window: 2})
TotpVerify(secret, code) ==
  \E d \in -TotpWindow..TotpWindow : code = Totp(secret, Counter + d)

\* a loop that stops one code short
NewBackupCodes_Nine ==
  [present |-> TRUE, codes |-> [i \in 1..(BackupCodeCount - 1) |-> BackupCode(i)]]

\* for (i = 0; i < 10; i++) backupCodes.push(random code)
NewBackupCodes == [present |-> TRUE, codes |-> [i \in 1..BackupCodeCount |-> BackupCode(i)]]

IndexOf(codes, code) ==
  IF \E i \in 1..Len(codes) : codes[i] = code
    THEN CHOOSE i \in 1..Len(codes) : codes[i] = code /\ \A j \in 1..(i - 1) : codes[j] # code
    ELSE 0
\* a splice that removes nothing
Splice_Keep(codes, i) == codes

\* backupCodes.splice(codeIndex, 1)
Splice(codes, i) == SubSeq(codes, 1, i - 1) \o SubSeq(codes, i + 1, Len(codes))

\* POST /api/2fa/setup: begin enrollment, nothing is stored
TwoFASetup(t) ==
  /\ resp' = [Req("2fa.setup", t, authenticateFor2FAEnrollment(t)) EXCEPT
                !.reached = authenticateFor2FAEnrollment(t) = "ok"]
  /\ UNCHANGED <<users, nextId, settings, backupCodes, tokens, now, enforcedAt, raceVars, ssoVars, verified, exchanged>>

\* INSERT OR REPLACE twoFactorSecret, twoFactorBackupCodes, twofa_enabled
Enroll(op, t, code, secret, auth) ==
  /\ UNCHANGED <<users, nextId, tokens, now, enforcedAt, clientVars, inflight, pending, ssoVars, verified,
                  exchanged>>
  /\ IF auth # "ok" THEN
       /\ resp' = [Req(op, t, auth) EXCEPT !.presented = code]
       /\ UNCHANGED <<settings, backupCodes, accepted>>
     ELSE IF ~TotpVerify(secret, code) THEN
       /\ resp' = [Req(op, t, "InvalidCode") EXCEPT !.reached = TRUE, !.presented = code]
       /\ UNCHANGED <<settings, backupCodes, accepted>>
     ELSE
       /\ accepted' = [accepted EXCEPT ![t.id] = [n \in 1..BackupCodeCount |-> 0]]
       /\ settings' = [settings EXCEPT ![t.id]["twoFactorSecret"] = secret,
                                       ![t.id]["twofa_enabled"] = "true"]
       /\ backupCodes' = [backupCodes EXCEPT ![t.id] = NewBackupCodes]
       /\ resp' = [Req(op, t, "ok") EXCEPT !.reached = TRUE, !.wrote = TRUE,
                                           !.presented = code]

\* POST /api/2fa/verify: confirm enrollment
TwoFAVerify(t, code, secret) ==
  Enroll("2fa.verify", t, code, secret, authenticateFor2FAEnrollment(t))

\* POST /api/2fa/verify-setup: the same body behind authenticateToken
TwoFAVerifySetup(t, code, secret) ==
  Enroll("2fa.verify-setup", t, code, secret, authenticateToken(t))

\* POST /api/2fa/verify-login: no token, userId and code come from the body
VerifyLogin(userId, code) ==
  LET secret == settings[userId]["twoFactorSecret"]
      codes == backupCodes[userId].codes
      R(c) == [Idle EXCEPT !.op = "2fa.verify-login", !.uid = userId, !.code = c,
                           !.reached = TRUE, !.presented = code]
  IN /\ UNCHANGED <<users, nextId, settings, tokens, now, enforcedAt, raceVars, ssoVars, exchanged>>
     /\ IF secret = NULL THEN
          /\ resp' = R("InvalidCode")
          /\ UNCHANGED <<backupCodes, verified>>
        ELSE IF TotpVerify(secret, code) THEN
          /\ resp' = R("ok")
          /\ verified' = verified \cup {userId}
          /\ UNCHANGED backupCodes
        ELSE IF ~backupCodes[userId].present \/ IndexOf(codes, code) = 0 THEN
          /\ resp' = R("InvalidCode")
          /\ UNCHANGED <<backupCodes, verified>>
        ELSE
          /\ backupCodes' = [backupCodes EXCEPT
                               ![userId].codes = Splice(codes, IndexOf(codes, code))]
          /\ resp' = [R("ok") EXCEPT !.wrote = TRUE]
          /\ verified' = verified \cup {userId}

\* /verify-login as the two steps the database sees.  The first runs the SELECT of the
\* secret, the TOTP check, the SELECT of the backup codes and the answer; for an accepted
\* backup code it leaves the UPDATE (db.run without a callback) to run later with the list
\* it computed from what it read.
VerifyLoginSelect(r, userId, code) ==
  LET secret == settings[userId]["twoFactorSecret"]
      codes == backupCodes[userId].codes
      R(c) == [Idle EXCEPT !.op = "2fa.verify-login", !.uid = userId, !.code = c,
                           !.reached = TRUE, !.presented = code]
  IN /\ inflight[r].pc = "idle"
     /\ UNCHANGED <<users, nextId, settings, backupCodes, tokens, now, enforcedAt, clientVars, pending,
                     ssoVars, exchanged>>
     /\ IF secret = NULL THEN
          /\ resp' = R("InvalidCode")
          /\ UNCHANGED <<inflight, accepted, verified>>
        ELSE IF TotpVerify(secret, code) THEN
          /\ resp' = R("ok")
          /\ verified' = verified \cup {userId}
          /\ UNCHANGED <<inflight, accepted>>
        ELSE IF ~backupCodes[userId].present \/ IndexOf(codes, code) = 0 THEN
          /\ resp' = R("InvalidCode")
          /\ UNCHANGED <<inflight, accepted, verified>>
        ELSE
          /\ inflight' = [inflight EXCEPT ![r] =
                             [pc |-> "update", userId |-> userId,
                              newValue |-> Splice(codes, IndexOf(codes, code))]]
          \* the count stops at MaxInflight
          /\ accepted' = [accepted EXCEPT ![userId][code.n] =
                             IF @ < MaxInflight THEN @ + 1 ELSE @]
          /\ resp' = R("ok")
          /\ verified' = verified \cup {userId}

\* UPDATE settings SET value = ? WHERE user_id = ? AND key IN (...)
VerifyLoginUpdate(r) ==
  /\ inflight[r].pc = "update"
  /\ backupCodes' = IF backupCodes[inflight[r].userId].present
                      THEN [backupCodes EXCEPT ![inflight[r].userId].codes = inflight[r].newValue]
                      ELSE backupCodes
  /\ inflight' = [inflight EXCEPT ![r] = NoRequest]
  /\ UNCHANGED <<users, nextId, settings, tokens, now, enforcedAt, clientVars, accepted, pending, ssoVars,
                  verified, exchanged, resp>>

\* POST /api/2fa/generate-secret: begin enrollment behind authenticateToken, nothing is stored
TwoFAGenerateSecret(t) ==
  /\ resp' = [Req("2fa.generate-secret", t, authenticateToken(t)) EXCEPT
                !.reached = authenticateToken(t) = "ok"]
  /\ UNCHANGED <<users, nextId, settings, backupCodes, tokens, now, enforcedAt, raceVars,
                  ssoVars, verified, exchanged>>

\* the keys a DELETE FROM settings WHERE user_id = ? AND key IN (...) names; no handler
\* writes rows with the keys 'twofa_secret' and 'backup_codes', so naming them removes nothing
DisableKeys == {"twoFactorEnabled", "twoFactorSecret", "twoFactorBackupCodes"}
AdminResetKeys == {"twofa_secret", "backup_codes", "twofa_enabled"}
AdminUnenrollKeys == {"twofa_secret", "backup_codes", "twofa_enabled", "2faEnrollmentRequired"}

DeleteKeys(id, keys) ==
  /\ settings' = [settings EXCEPT ![id] = [k \in Keys |-> IF k \in keys THEN NULL ELSE @[k]]]
  /\ backupCodes' = IF "twoFactorBackupCodes" \in keys
                      THEN [backupCodes EXCEPT ![id] = NoCodes] ELSE backupCodes

\* POST /api/2fa/disable: the first of the two handlers registered for the path answers
TwoFADisable(t) ==
  /\ UNCHANGED <<users, nextId, tokens, now, enforcedAt, raceVars, ssoVars, verified, exchanged>>
  /\ IF authenticateToken(t) # "ok" THEN
       /\ resp' = Req("2fa.disable", t, authenticateToken(t))
       /\ UNCHANGED <<settings, backupCodes>>
     ELSE
       /\ DeleteKeys(t.id, DisableKeys)
       /\ resp' = [Req("2fa.disable", t, "ok") EXCEPT !.reached = TRUE, !.wrote = TRUE]

AdminDelete(op, t, userId, keys) ==
  LET code == IF authenticateToken(t) # "ok" THEN authenticateToken(t)
              ELSE IF t.role # "admin" THEN "Unauthorized" ELSE "ok"
  IN /\ UNCHANGED <<users, nextId, tokens, now, enforcedAt, raceVars, ssoVars, verified, exchanged>>
     /\ IF code # "ok" THEN
          /\ resp' = [Req(op, t, code) EXCEPT !.reached = code = "Unauthorized"]
          /\ UNCHANGED <<settings, backupCodes>>
        ELSE
          /\ DeleteKeys(userId, keys)
          /\ resp' = [Req(op, t, "ok") EXCEPT !.reached = TRUE, !.wrote = TRUE]

\* POST /api/2fa/admin/reset/:userId
AdminReset(t, userId) == AdminDelete("2fa.admin-reset", t, userId, AdminResetKeys)

\* POST /api/2fa/admin/unenroll/:userId
AdminUnenroll(t, userId) == AdminDelete("2fa.admin-unenroll", t, userId, AdminUnenrollKeys)

\* POST /api/2fa/admin/force-enroll/:userId
ForceEnroll(t, userId) ==
  LET code == IF authenticateToken(t) # "ok" THEN authenticateToken(t)
              ELSE IF t.role # "admin" THEN "Unauthorized" ELSE "ok"
  IN /\ UNCHANGED <<users, nextId, backupCodes, tokens, now, enforcedAt, raceVars, ssoVars,
                     verified, exchanged>>
     /\ IF code # "ok" THEN
          /\ resp' = [Req("2fa.force-enroll", t, code) EXCEPT !.reached = code = "Unauthorized"]
          /\ UNCHANGED settings
        ELSE
          /\ settings' = [settings EXCEPT ![userId]["2faEnrollmentRequired"] = "true"]
          /\ resp' = [Req("2fa.force-enroll", t, "ok") EXCEPT !.reached = TRUE, !.wrote = TRUE]

\* POST /api/auth/login with a wrong password, step by step. First step: the SELECT of the
\* user and checkAccountLockout; a request that is not locked out goes on to bcrypt.compare
\* and is in flight.
LoginCheck(r, ident, password) ==
  LET id == FindUser(ident)
      LoginResp(code, uid) ==
        [Idle EXCEPT !.op = "login", !.code = code, !.uid = uid, !.password = password]
  IN /\ pending[r].pc = "idle"
     /\ id # 0
     /\ users[id].password_hash # NULL
     /\ ~bcryptCompare(password, users[id].password_hash)
     /\ UNCHANGED <<nextId, settings, backupCodes, tokens, now, enforcedAt, clientVars, inflight, accepted,
                     ssoVars, verified, exchanged>>
     /\ IF isLocked(id) THEN
          /\ resp' = LoginResp("AccountLocked", id)
          /\ pending' = [pending EXCEPT ![r] = [NoPending EXCEPT !.pc = "login.locked", !.email = ident,
                                                                 !.password = password, !.id = id]]
          /\ UNCHANGED users
        ELSE
          /\ resp' = LoginResp("none", id)
          /\ users' = [users EXCEPT ![id] = AfterLockoutCheck(id)]
          /\ pending' = [pending EXCEPT ![r] = [NoPending EXCEPT !.pc = "login.compare", !.email = ident,
                                                                 !.password = password, !.id = id]]

\* second step, in the callback of bcrypt.compare: the password does not match,
\* recordFailedAttempt runs its UPDATE and the answer is 401
LoginCompare(r) ==
  LET id == pending[r].id
  IN /\ pending[r].pc = "login.compare"
     /\ users' = [users EXCEPT ![id] = recordFailedAttempt(@)]
     /\ pending' = [pending EXCEPT ![r].pc = "login.compared"]
     /\ resp' = [Idle EXCEPT !.op = "login", !.code = WrongPasswordCode, !.uid = id,
                             !.password = pending[r].password, !.compared = TRUE,
                             !.recorded = TRUE]
     /\ UNCHANGED <<nextId, settings, backupCodes, tokens, now, enforcedAt, clientVars, inflight, accepted,
                     ssoVars, verified, exchanged>>

\* ------------------------------------------------------------- routes/sso.js
\* POST /api/sso/config (no middleware): ssoConfig is replaced and saved first; when the
\* configuration is enabled and complete the issuer is discovered (discovers: whether
\* Issuer.discover succeeds) and the client is built; otherwise oidcClient is left as it is.
\* issuerUrl "" stands for a request that lacks issuerUrl, clientId or clientSecret.
SsoConfig(enabled, issuerUrl, discovers) ==
  LET initialise == enabled /\ issuerUrl # ""
      code == IF initialise /\ ~discovers THEN "InvalidOidcConfiguration" ELSE "ok"
  IN /\ ssoConfig' = [enabled |-> enabled, issuerUrl |-> issuerUrl,
                      client |-> IF initialise /\ discovers THEN issuerUrl
                                 ELSE ssoConfig.client]
     /\ resp' = [Idle EXCEPT !.op = "sso.config", !.code = code, !.reached = TRUE,
                             !.wrote = TRUE]
     /\ UNCHANGED <<users, nextId, settings, backupCodes, tokens, now, enforcedAt, raceVars,
                     oidcSession, codeVerifier, idp, verified, exchanged>>

SsoLoginCode ==
  IF ~ssoConfig.enabled THEN "SsoNotEnabled"
  ELSE IF ssoConfig.client = NULL THEN "ClientNotInitialized" ELSE "ok"

\* GET /api/sso/login, the handler that keeps the pending state in the session: attempt a
\* draws a fresh state and verifier, authUrl carries the state and no code challenge
SsoLogin(a, b, identity) ==
  /\ ~idp[a].started
  /\ resp' = [Idle EXCEPT !.op = "sso.login", !.code = SsoLoginCode, !.attempt = a,
                          !.browser = b, !.reached = TRUE]
  /\ UNCHANGED <<users, nextId, settings, backupCodes, tokens, now, enforcedAt, raceVars,
                  ssoConfig, codeVerifier, verified, exchanged>>
  /\ IF SsoLoginCode # "ok" THEN UNCHANGED <<oidcSession, idp>>
     ELSE /\ oidcSession' = [oidcSession EXCEPT ![b] = [state |-> a, codeVerifier |-> a]]
          /\ idp' = [idp EXCEPT ![a] = [started |-> TRUE, browser |-> b, state |-> a,
                                        challenge |-> 0, identity |-> identity,
                                        redeemed |-> FALSE]]

\* GET /api/sso/login, the handler with the module-level codeVerifier: authUrl carries the
\* challenge of the verifier and no state
SsoLoginModule(a, b, identity) ==
  /\ ~idp[a].started
  /\ resp' = [Idle EXCEPT !.op = "sso.login", !.code = SsoLoginCode, !.attempt = a,
                          !.browser = b, !.reached = TRUE]
  /\ UNCHANGED <<users, nextId, settings, backupCodes, tokens, now, enforcedAt, raceVars,
                  ssoConfig, oidcSession, verified, exchanged>>
  /\ IF SsoLoginCode # "ok" THEN UNCHANGED <<codeVerifier, idp>>
     ELSE /\ codeVerifier' = a
          /\ idp' = [idp EXCEPT ![a] = [started |-> TRUE, browser |-> b, state |-> 0,
                                        challenge |-> a, identity |-> identity,
                                        redeemed |-> FALSE]]

\* `${baseUsername}${++counter}`: the base name first, then the base name with 2, 3, ...
NumberedNames == [a |-> <<"a", "a2", "a3", "a4">>, b |-> <<"b", "b2", "b3", "b4">>]
Numbered(baseUsername, counter) == NumberedNames[baseUsername][counter]
UsernameTaken(username) == \E i \in UserIds : users[i].exists /\ users[i].username = username
\* checkAndCreateUser: the first name of the sequence that no row holds
usernameToTry(baseUsername) ==
  Numbered(baseUsername,
           CHOOSE k \in 1..4 : /\ ~UsernameTaken(Numbered(baseUsername, k))
                               /\ \A j \in 1..(k - 1) : UsernameTaken(Numbered(baseUsername, j)))

existingUser(ssoId) ==
  IF \E i \in UserIds : users[i].exists /\ users[i].sso_id = ssoId
  THEN CHOOSE i \in UserIds : users[i].exists /\ users[i].sso_id = ssoId ELSE 0

\* jwt.sign({id, email, role, ...}, JWT_SECRET, {expiresIn: '24h'}) of the callback
SsoToken(id, email, role) == Sign(id, email, role, UNDEFINED, RefreshTokenLifetime, "session")

\* UPDATE users SET ..., role = ?, groups = ?, is_active = 1 WHERE id = ?
SyncedRow_KeepRole(row, role, groups) == [row EXCEPT !.is_active = TRUE]
SyncedRow_KeepActive(row, role, groups) == [row EXCEPT !.role = role, !.groups = groups]
SyncedRow(row, role, groups) ==
  [row EXCEPT !.role = role, !.groups = groups, !.is_active = TRUE]

\* oidcClient.callback: the state of the response is compared with checks.state (both absent
\* passes), the code is redeemed once, and a code issued for a challenge needs its verifier
StateChecks(paramsState, checksState) ==
  IF paramsState = 0 THEN checksState = 0 ELSE checksState = paramsState
Exchanges(a, code_verifier) ==
  /\ ~idp[a].redeemed
  /\ idp[a].challenge # 0 => code_verifier = idp[a].challenge

\* GET /api/sso/callback for the code of attempt a arriving in browser b with state in its
\* query (0: none). session tells the
\* handler that reads req.session.oidc from the one that reads the module-level codeVerifier.
\* On success the row with the sso_id is updated (role from the groups, is_active = 1) or a
\* new row is inserted, and a 24 h token is signed.
SsoCallbackHandler(a, b, state, session) ==
  LET identity == idp[a].identity
      checksState == IF session THEN oidcSession[b].state ELSE 0
      code_verifier == IF session THEN 0 ELSE codeVerifier
      role == MappedRole(identity.groups)
      id == existingUser(identity.sub)
      exchange == StateChecks(state, checksState) /\ Exchanges(a, code_verifier)
      code == IF ssoConfig.client = NULL THEN "sso_not_configured"
              ELSE IF ~exchange THEN "sso_failed"
              ELSE IF id = 0 /\ EmailTaken(identity.email) THEN "create_failed" ELSE "ok"
      uid == IF id # 0 THEN id ELSE nextId
      token == SsoToken(uid, IF id # 0 THEN users[id].email ELSE identity.email, role)
      R == [Idle EXCEPT !.op = "sso.callback", !.code = code, !.attempt = a, !.browser = b,
                        !.usedState = checksState,
                        !.usedVerifier = IF session THEN oidcSession[b].codeVerifier
                                         ELSE codeVerifier,
                        !.paramsState = state,
                        !.redeemed = code \in {"create_failed", "ok"},
                        !.pending = oidcSession'[b],
                        !.dbRole = IF id # 0 THEN users[id].role ELSE NULL,
                        !.acct = IF id = 0 THEN "none"
                                 ELSE IF users[id].is_active THEN "ok" ELSE "inactive",
                        !.reached = TRUE]
  IN /\ idp[a].started
     /\ UNCHANGED <<settings, backupCodes, now, enforcedAt, raceVars, ssoConfig, codeVerifier,
                     verified, exchanged>>
     /\ oidcSession' = IF session /\ code \in {"sso_failed", "ok"}
                       THEN [oidcSession EXCEPT ![b] = NoOidc] ELSE oidcSession
     /\ idp' = IF code \in {"create_failed", "ok"}
               THEN [idp EXCEPT ![a].redeemed = TRUE] ELSE idp
     /\ IF code # "ok" THEN
          /\ resp' = R
          /\ UNCHANGED <<users, nextId, tokens>>
        ELSE
          /\ CanIssue(token)
          /\ IF id # 0 THEN
               /\ users' = [users EXCEPT ![id] = SyncedRow(@, role, identity.groups)]
               /\ UNCHANGED nextId
             ELSE
               /\ nextId <= MaxUsers
               /\ users' = [users EXCEPT ![nextId] =
                              [NewRow(usernameToTry(LocalPart(identity.email)), identity.email,
                                      NULL, role) EXCEPT !.sso_id = identity.sub,
                                                         !.groups = identity.groups]]
               /\ nextId' = nextId + 1
          /\ tokens' = tokens \cup {token}
          /\ resp' = [R EXCEPT !.tok = token, !.uid = uid, !.wrote = TRUE]

SsoCallback(a, b, state) == SsoCallbackHandler(a, b, state, TRUE)
SsoCallbackModule(a, b, state) == SsoCallbackHandler(a, b, state, FALSE)

\* GET /api/sso/callback of a first sign-on, step by step. First step: the exchange, the
\* SELECT by sso_id that finds no row and the SELECTs of checkAndCreateUser up to the first
\* username that no row holds.
SsoCallbackSelect(r, a, b, state) ==
  LET identity == idp[a].identity
  IN /\ pending[r].pc = "idle"
     /\ idp[a].started
     /\ ssoConfig.client # NULL
     /\ StateChecks(state, oidcSession[b].state) /\ Exchanges(a, 0)
     /\ existingUser(identity.sub) = 0
     /\ idp' = [idp EXCEPT ![a].redeemed = TRUE]
     /\ pending' = [pending EXCEPT ![r] =
                      [NoPending EXCEPT !.pc = "sso.insert", !.email = identity.email,
                                        !.username = usernameToTry(LocalPart(identity.email)),
                                        !.attempt = a]]
     /\ resp' = [Idle EXCEPT !.op = "sso.callback.select", !.attempt = a, !.browser = b,
                             !.paramsState = state, !.redeemed = TRUE, !.reached = TRUE]
     /\ UNCHANGED <<users, nextId, settings, backupCodes, tokens, now, enforcedAt, clientVars,
                     inflight, accepted, ssoConfig, oidcSession, codeVerifier, verified, exchanged>>

\* second step: the INSERT with the username found. username, email and sso_id are UNIQUE:
\* a row that holds one of them by now makes the INSERT fail (create_failed); otherwise the
\* row is inserted, the token signed and req.session.oidc deleted.
SsoCallbackInsert(r) ==
  LET a == pending[r].attempt
      b == idp[a].browser
      identity == idp[a].identity
      role == MappedRole(identity.groups)
      conflict == \E i \in UserIds :
                    /\ users[i].exists
                    /\ \/ users[i].username = pending[r].username
                       \/ users[i].email = identity.email
                       \/ users[i].sso_id = identity.sub
      token == SsoToken(nextId, identity.email, role)
      R == [Idle EXCEPT !.op = "sso.callback.insert", !.attempt = a, !.browser = b,
                        !.redeemed = TRUE, !.reached = TRUE]
  IN /\ pending[r].pc = "sso.insert"
     /\ UNCHANGED <<settings, backupCodes, now, enforcedAt, clientVars, inflight, accepted,
                     ssoConfig, codeVerifier, idp, verified, exchanged>>
     /\ IF conflict THEN
          /\ pending' = [pending EXCEPT ![r].pc = "sso.failed"]
          /\ resp' = [R EXCEPT !.code = "create_failed"]
          /\ UNCHANGED <<users, nextId, tokens, oidcSession>>
        ELSE
          /\ nextId <= MaxUsers
          /\ CanIssue(token)
          /\ users' = [users EXCEPT ![nextId] =
                         [NewRow(pending[r].username, identity.email, NULL, role)
                            EXCEPT !.sso_id = identity.sub, !.groups = identity.groups]]
          /\ nextId' = nextId + 1
          /\ tokens' = tokens \cup {token}
          /\ oidcSession' = [oidcSession EXCEPT ![b] = NoOidc]
          /\ pending' = [pending EXCEPT ![r].pc = "sso.created", ![r].id = nextId]
          /\ resp' = [R EXCEPT !.code = "ok", !.tok = token, !.uid = nextId, !.wrote = TRUE]

\* --------------------------------------------------------- routes/settings.js
\* PUT /api/settings/:key  {value, scope}: INSERT ... ON CONFLICT(user_id, key) DO UPDATE
\* SET value, updated_at = datetime('now').  A system row has user_id NULL, which never
\* conflicts, so every system write adds a row; settings[0][key] is the value of the
\* newest one and the requests below write one value per key that db.get reads.
SettingsPutAs(auth, t, key, value, scope) ==
  LET code == IF auth # "ok" THEN auth
              ELSE IF scope = "system" /\ t.role # "admin" THEN "AdminRequired" ELSE "ok"
      targetUserId == IF scope = "system" THEN 0 ELSE t.id
  IN /\ UNCHANGED <<users, nextId, backupCodes, tokens, now, raceVars, ssoVars, verified, exchanged>>
     /\ IF code # "ok" THEN
          /\ resp' = [Req("settings.put", t, code) EXCEPT !.reached = code = "AdminRequired"]
          /\ UNCHANGED <<settings, enforcedAt>>
        ELSE
          /\ settings' = [settings EXCEPT ![targetUserId][key] = value]
          /\ enforcedAt' = IF targetUserId = 0 /\ key \in EnforcementKeys /\ value = "true"
                             THEN [enforcedAt EXCEPT ![key] = now] ELSE enforcedAt
          /\ resp' = [Req("settings.put", t, "ok") EXCEPT !.reached = TRUE, !.wrote = TRUE]
SettingsPut(t, key, value, scope) == SettingsPutAs(authenticateToken(t), t, key, value, scope)

\* DELETE /api/settings/:key  {scope}: DELETE FROM settings WHERE user_id IS ? AND key = ?
SettingsDelete(t, key, scope) ==
  LET code == IF authenticateToken(t) # "ok" THEN authenticateToken(t)
              ELSE IF scope = "system" /\ t.role # "admin" THEN "AdminRequired" ELSE "ok"
      targetUserId == IF scope = "system" THEN 0 ELSE t.id
  IN /\ UNCHANGED <<users, nextId, tokens, now, raceVars, ssoVars, verified, exchanged>>
     /\ IF code # "ok" THEN
          /\ resp' = [Req("settings.delete", t, code) EXCEPT !.reached = code = "AdminRequired"]
          /\ UNCHANGED <<settings, backupCodes, enforcedAt>>
        ELSE
          /\ settings' = IF key \in Keys THEN [settings EXCEPT ![targetUserId][key] = NULL]
                         ELSE settings
          /\ backupCodes' = IF key = "twoFactorBackupCodes" /\ targetUserId # 0
                            THEN [backupCodes EXCEPT ![targetUserId] = NoCodes] ELSE backupCodes
          /\ enforcedAt' = IF targetUserId = 0 /\ key \in EnforcementKeys
                             THEN [enforcedAt EXCEPT ![key] = NoTime] ELSE enforcedAt
          /\ resp' = [Req("settings.delete", t, "ok") EXCEPT !.reached = TRUE, !.wrote = TRUE]

\* ------------------------------------------------------------ IP allow-list
\* the characters of the addresses and address lists of the requests below
Chars(s) ==
  CASE s = "10.0.0.5" -> <<"1", "0", ".", "0", ".", "0", ".", "5">>
    [] s = "110.0.0.7" -> <<"1", "1", "0", ".", "0", ".", "0", ".", "7">>
    [] s = "10.0.1.5" -> <<"1", "0", ".", "0", ".", "1", ".", "5">>
    [] s = "192.168.1.5" -> <<"1", "9", "2", ".", "1", "6", "8", ".", "1", ".", "5">>
    [] s = "10.0.0.0/24" -> <<"1", "0", ".", "0", ".", "0", ".", "0", "/", "2", "4">>
    [] s = "192.168.1.5, 10.0.0.0/16" -> <<"1", "9", "2", ".", "1", "6", "8", ".", "1", ".", "5", ",", " ", "1", "0", ".", "0", ".", "0", ".", "0", "/", "1", "6">>
    [] s = "192.168.1.5" -> <<"1", "9", "2", ".", "1", "6", "8", ".", "1", ".", "5">>
    [] OTHER -> <<>>

\* String.prototype.split with a one-character separator
RECURSIVE split(_, _)
split(s, sep) ==
  IF \A i \in 1..Len(s) : s[i] # sep THEN <<s>>
  ELSE LET i == CHOOSE k \in 1..Len(s) : s[k] = sep /\ \A j \in 1..(k - 1) : s[j] # sep
       IN <<SubSeq(s, 1, i - 1)>> \o split(SubSeq(s, i + 1, Len(s)), sep)
\* String.prototype.trim
RECURSIVE trim(_)
trim(s) ==
  IF Len(s) > 0 /\ s[1] = " " THEN trim(Tail(s))
  ELSE IF Len(s) > 0 /\ s[Len(s)] = " " THEN trim(SubSeq(s, 1, Len(s) - 1))
  ELSE s
\* Array.prototype.slice(0, end)
slice(parts, end) == SubSeq(parts, 1, IF Len(parts) < end THEN Len(parts) ELSE end)
\* Array.prototype.join
RECURSIVE join(_, _)
join(parts, sep) ==
  IF Len(parts) = 0 THEN <<>>
  ELSE IF Len(parts) = 1 THEN parts[1]
  ELSE parts[1] \o <<sep>> \o join(Tail(parts), sep)

\* allowedIPs.some(...): an entry with a '/' matches when the client address contains the
\* first three dotted parts of the entry's network, any other entry when it equals it
ipMatches(clientIP, value) ==
  LET allowedIPs == [i \in 1..Len(split(value, ",")) |-> trim(split(value, ",")[i])]
  IN \E i \in 1..Len(allowedIPs) :
       IF includes(allowedIPs[i], <<"/">>)
       THEN LET network == split(allowedIPs[i], "/")[1]
            IN includes(clientIP, join(slice(split(network, "."), 3), "."))
       ELSE clientIP = allowedIPs[i]

ipWhitelistEnabled == settings[0]["ip-whitelist"] = "true"
\* authenticateToken with the allow-list: no 'allowed-ips' row allows every address
authenticateTokenFrom(t, clientIP) ==
  IF authenticateToken(t) # "ok" THEN authenticateToken(t)
  ELSE IF /\ ipWhitelistEnabled
          /\ settings[0]["allowed-ips"] # NULL
          /\ ~ipMatches(Chars(clientIP), Chars(settings[0]["allowed-ips"]))
       THEN "IPNotAllowed"
  ELSE "ok"

\* GET /api/auth/me from a client address
MeFrom(t, clientIP) ==
  /\ resp' = [Req("me.from", t, authenticateTokenFrom(t, clientIP))
                EXCEPT !.reached = authenticateTokenFrom(t, clientIP) = "ok", !.ip = clientIP]
  /\ UNCHANGED <<users, nextId, settings, backupCodes, tokens, now, enforcedAt, raceVars, ssoVars, verified, exchanged>>

\* PUT /api/settings/:key from a client address
SettingsPutFrom(t, key, value, scope, clientIP) ==
  SettingsPutAs(authenticateTokenFrom(t, clientIP), t, key, value, scope)

\* ------------------------------------------------------------------ api.js
\* ApiClient.refreshTokenIfNeeded.  JavaScript runs each stretch of code between two awaits
\* without interruption, so a call is the steps Call, FetchSettles and JsonSettles.
serverVars == <<users, nextId, settings, backupCodes, tokens, now, verified, exchanged, resp,
                enforcedAt, inflight, accepted, pending, ssoVars>>

\* if (this.refreshing): the call queues its resolve function and waits
alreadyRefreshing_Never == FALSE
alreadyRefreshing == refreshing

\* the call up to its first await: it waits, or sends POST /api/auth/refresh, or returns
\* at once when there is no token
Call(c) ==
  /\ calls[c] = "idle"
  /\ IF alreadyRefreshing THEN
       /\ refreshQueue' = Append(refreshQueue, c)
       /\ calls' = [calls EXCEPT ![c] = "waiting"]
       /\ UNCHANGED refreshing
     ELSE IF clientToken # 0 THEN
       /\ refreshing' = TRUE
       /\ calls' = [calls EXCEPT ![c] = "fetch"]
       /\ UNCHANGED refreshQueue
     ELSE
       /\ calls' = [calls EXCEPT ![c] = "returned"]
       /\ UNCHANGED <<refreshing, refreshQueue>>
  /\ UNCHANGED <<clientToken, settled, serverVars>>

\* the finally block: refreshing = false, every queued resolve is called, the queue is
\* emptied; then the call returns
Finally_OnlyAfterTry(c, how) ==
  /\ refreshing' = (how = "threw")
  /\ refreshQueue' = IF how = "threw" THEN refreshQueue ELSE <<>>
  /\ calls' = [k \in Callers |->
                 IF k = c THEN "returned"
                 ELSE IF how # "threw" /\ \E i \in 1..Len(refreshQueue) : refreshQueue[i] = k
                      THEN "resumed"
                 ELSE calls[k]]
  /\ settled' = how
Finally(c, how) ==
  /\ refreshing' = FALSE
  /\ refreshQueue' = <<>>
  /\ calls' = [k \in Callers |->
                 IF k = c THEN "returned"
                 ELSE IF \E i \in 1..Len(refreshQueue) : refreshQueue[i] = k THEN "resumed"
                 ELSE calls[k]]
  /\ settled' = how

FetchOutcomes == {"ok", "status", "threw"}
\* await fetch(...): a response that is ok, one that is not, or a rejection
FetchSettles(c, outcome) ==
  /\ calls[c] = "fetch"
  /\ IF outcome = "ok" THEN
       /\ calls' = [calls EXCEPT ![c] = "json"]
       /\ UNCHANGED <<refreshing, refreshQueue, settled>>
     ELSE Finally(c, outcome)
  /\ UNCHANGED <<clientToken, serverVars>>

JsonOutcomes == {"token", "empty", "threw"}
\* await response.json(): a body with a token (setToken), one without, or a rejection
JsonSettles(c, outcome) ==
  /\ calls[c] = "json"
  /\ outcome = "token" => clientToken < MaxRefreshes
  /\ clientToken' = IF outcome = "token" THEN clientToken + 1 ELSE clientToken
  /\ Finally(c, outcome)
  /\ UNCHANGED serverVars

\* the caller goes on after its await of refreshTokenIfNeeded and may call again
Return(c) ==
  /\ calls[c] \in {"returned", "resumed"}
  /\ calls' = [calls EXCEPT ![c] = "idle"]
  /\ UNCHANGED <<refreshing, refreshQueue, clientToken, settled, serverVars>>

\* setToken(token) after a login
SetToken ==
  /\ clientToken < MaxRefreshes
  /\ clientToken' = clientToken + 1
  /\ UNCHANGED <<refreshing, refreshQueue, calls, settled, serverVars>>

\* clearToken() at logout
ClearToken ==
  /\ clientToken # 0
  /\ clientToken' = 0
  /\ UNCHANGED <<refreshing, refreshQueue, calls, settled, serverVars>>

\* ---------------------------------------------------------------- requests
UpdateInputs ==
  { [role |-> UNDEFINED, is_active |-> "0", password |-> UNDEFINED],
    [role |-> UNDEFINED, is_active |-> "1", password |-> UNDEFINED] }

RoleInputs == {[role |-> "user", is_active |-> UNDEFINED, password |-> UNDEFINED]}

CodeInputs == {Totp("S1", Counter), Totp("S1", Counter + TotpWindow + 1), BackupCode(1)}

\* each account's own password
OwnLogins == {<<"a@x", "pw1">>, <<"b@x", "pw2">>}
\* the code an authenticator shows d seconds away from the server's clock
GeneratedAt(secret, d) == Totp(secret, (now + d) \div 30)
Offsets == {-90, -60, -30, 0, 30, 60, 90}
RaceCodes == {BackupCode(1), BackupCode(2)}
EnforcementInputs == {<<"enforce-2fa-all-users", "true", "system">>}
LockoutInputs == {<<"max-login-attempts", "2", "system">>, <<"lockout-duration", "2", "system">>}
PolicyInputs ==
  {<<"enforce-2fa-all-users", "true", "system">>, <<"enforce-2fa-all-users", "false", "system">>,
   <<"enforce-2fa-admins-only", "true", "system">>, <<"twoFactorEnabled", "true", "user">>}

ClientIPs == {"10.0.0.5", "110.0.0.7", "10.0.1.5", "192.168.1.5"}
\* the first row of each allow-list key (the row db.get reads)
AllowlistInputs ==
  {<<"ip-whitelist", "true">>, <<"allowed-ips", "10.0.0.0/24">>,
   <<"allowed-ips", "192.168.1.5, 10.0.0.0/16">>, <<"allowed-ips", "192.168.1.5">>}

\* sessions and user management
Next ==
  \/ \E e \in SetupEmails, p \in SetupPasswords : Setup(e, p)
  \/ \E i \in Idents, p \in Passwords : Login(i, p)
  \/ \E t \in tokens : Me(t)
  \/ \E t \in tokens : Refresh(t)
  \/ \E t \in tokens : TwoFAComplete(t)
  \/ \E t \in tokens : Logout(t)
  \/ \E t \in tokens, s \in EnforcementInputs : SettingsPut(t, s[1], s[2], s[3])
  \/ \E t \in tokens : UsersList(t)
  \/ \E t \in tokens, e \in Emails, p \in NewUserPasswords : UsersCreate(t, e, p, UNDEFINED)
  \/ \E t \in tokens, i \in UserIds, u \in UpdateInputs : UsersUpdate(t, i, u)
  \/ \E t \in tokens, i \in UserIds : UsersDelete(t, i)
  \/ \E t \in tokens, i \in UserIds : UsersReset2FA(t, i)

Spec == Init /\ [][Next]_vars

\* the second factor: enrollment, pending tokens and their exchange
NextTwoFA ==
  \/ \E e \in SetupEmails, p \in SetupPasswords : Setup(e, p)
  \/ \E i \in Emails, p \in Passwords : Login(i, p)
  \/ \E t \in tokens : Me(t)
  \/ \E t \in tokens : Refresh(t)
  \/ \E t \in tokens : TwoFAComplete(t)
  \/ \E t \in tokens : Logout(t)
  \/ \E t \in tokens : TwoFASetup(t)
  \/ \E t \in tokens, c \in CodeInputs, s \in Secrets : TwoFAVerify(t, c, s)
  \/ \E t \in tokens, c \in CodeInputs, s \in Secrets : TwoFAVerifySetup(t, c, s)
  \/ \E i \in UserIds, c \in CodeInputs : VerifyLogin(i, c)
  \/ \E t \in tokens, s \in EnforcementInputs : SettingsPut(t, s[1], s[2], s[3])
  \/ \E t \in tokens : UsersList(t)
  \/ \E t \in tokens, i \in UserIds, u \in UpdateInputs : UsersUpdate(t, i, u)

SpecTwoFA == Init /\ [][NextTwoFA]_vars

\* password login and lockout of one account
NextLockout ==
  \/ Tick
  \/ \E e \in SetupEmails, p \in SetupPasswords : Setup(e, p)
  \/ \E i \in Idents, p \in Passwords : Login(i, p)
  \/ \E t \in tokens, s \in LockoutInputs : SettingsPut(t, s[1], s[2], s[3])
  \/ \E t \in tokens, i \in UserIds, u \in UpdateInputs : UsersUpdate(t, i, u)
  \/ \E t \in tokens : Logout(t)

SpecLockout == Init /\ [][NextLockout]_vars

\* password login under the 2FA enforcement policy
NextPolicy ==
  \/ \E e \in SetupEmails, p \in SetupPasswords : Setup(e, p)
  \/ \E i \in Emails, p \in Passwords : Login(i, p)
  \/ \E t \in tokens, s \in PolicyInputs : SettingsPut(t, s[1], s[2], s[3])
  \/ \E t \in tokens, e \in Emails, p \in NewUserPasswords : UsersCreate(t, e, p, UNDEFINED)
  \/ \E t \in tokens, s \in Secrets : TwoFAVerify(t, Totp(s, Counter), s)
  \/ \E t \in tokens : Logout(t)

SpecPolicy == Init /\ [][NextPolicy]_vars

\* forced enrollment: accounts made before and after the enforcement is switched on
NextEnroll ==
  \/ Tick
  \/ \E e \in SetupEmails, p \in SetupPasswords : Setup(e, p)
  \/ \E l \in OwnLogins : Login(l[1], l[2])
  \/ \E t \in tokens, s \in EnforcementInputs : SettingsPut(t, s[1], s[2], s[3])
  \/ \E t \in tokens, e \in Emails, p \in NewUserPasswords : UsersCreate(t, e, p, UNDEFINED)
  \/ \E t \in tokens, i \in UserIds : ForceEnroll(t, i)
  \/ \E t \in tokens : Logout(t)

SpecEnroll == Init /\ [][NextEnroll]_vars

\* the life of an enrollment: begin, confirm, login-verify, disable and the resets
NextLifecycle ==
  \/ \E e \in SetupEmails, p \in SetupPasswords : Setup(e, p)
  \/ \E l \in OwnLogins : Login(l[1], l[2])
  \/ \E t \in tokens : TwoFAGenerateSecret(t)
  \/ \E t \in tokens : TwoFASetup(t)
  \/ \E t \in tokens, c \in CodeInputs, s \in Secrets : TwoFAVerify(t, c, s)
  \/ \E t \in tokens, c \in CodeInputs, s \in Secrets : TwoFAVerifySetup(t, c, s)
  \/ \E i \in UserIds, c \in CodeInputs : VerifyLogin(i, c)
  \/ \E t \in tokens : TwoFADisable(t)
  \/ \E t \in tokens, i \in UserIds : AdminReset(t, i)
  \/ \E t \in tokens, i \in UserIds : AdminUnenroll(t, i)
  \/ \E t \in tokens, i \in UserIds : UsersReset2FA(t, i)
  \/ \E t \in tokens : Logout(t)

SpecLifecycle == Init /\ [][NextLifecycle]_vars

\* login-verify requests of one user that overlap
NextRace ==
  \/ \E e \in SetupEmails, p \in SetupPasswords : Setup(e, p)
  \/ \E l \in OwnLogins : Login(l[1], l[2])
  \/ \E t \in tokens, s \in Secrets : TwoFAVerifySetup(t, Totp(s, Counter), s)
  \/ \E r \in Reqs, i \in UserIds, c \in RaceCodes : VerifyLoginSelect(r, i, c)
  \/ \E r \in Reqs : VerifyLoginUpdate(r)
  \/ \E t \in tokens : Logout(t)

SpecRace == Init /\ [][NextRace]_vars

\* verification of time-based codes: the administrator of a set-up system holds a session
\* token issued at time 0 and the clock reads anything from MinClock to MaxClock
InitTotp ==
  /\ users = [i \in UserIds |->
                IF i = 1 THEN [NoRow EXCEPT !.exists = TRUE, !.username = "a", !.email = "a@x",
                                            !.password_hash = "pw1", !.role = "admin",
                                            !.is_active = TRUE, !.created_at = 0]
                ELSE NoRow]
  /\ nextId = 2
  /\ settings = [o \in Owners |-> [k \in Keys |-> NULL]]
  /\ backupCodes = [i \in UserIds |-> NoCodes]
  /\ tokens = {[id |-> 1, email |-> "a@x", role |-> "admin", purpose |-> UNDEFINED,
                 exp |-> DefaultSessionTimeout, kind |-> "session"]}
  /\ now \in MinClock..MaxClock
  /\ verified = {}
  /\ exchanged = {}
  /\ resp = Idle
  /\ enforcedAt = [k \in EnforcementKeys |-> NoTime]
  /\ inflight = [r \in Reqs |-> NoRequest]
  /\ accepted = [i \in UserIds |-> [n \in 1..BackupCodeCount |-> 0]]
  /\ pending = [r \in Pendings |-> NoPending]
  /\ ssoConfig = [enabled |-> FALSE, issuerUrl |-> "", client |-> NULL]
  /\ oidcSession = [b \in Browsers |-> NoOidc]
  /\ codeVerifier = 0
  /\ idp = [a \in Attempts |-> NoAttempt]
  /\ refreshing = FALSE
  /\ refreshQueue = <<>>
  /\ clientToken = 0
  /\ calls = [c \in Callers |-> "idle"]
  /\ settled = "none"

NextTotp ==
  \/ \E t \in tokens, s \in Secrets, d \in Offsets : TwoFAVerify(t, GeneratedAt(s, d), s)
  \/ \E t \in tokens, s \in Secrets, d \in Offsets : TwoFAVerifySetup(t, GeneratedAt(s, d), s)
  \/ \E i \in UserIds, s \in Secrets, d \in Offsets : VerifyLogin(i, GeneratedAt(s, d))

SpecTotp == InitTotp /\ [][NextTotp]_vars

\* a change of a stored role while tokens issued before it are in use
NextRoles ==
  \/ \E e \in SetupEmails, p \in SetupPasswords : Setup(e, p)
  \/ \E l \in OwnLogins : Login(l[1], l[2])
  \/ \E t \in tokens : Me(t)
  \/ \E t \in tokens : Refresh(t)
  \/ \E t \in tokens, s \in EnforcementInputs : SettingsPut(t, s[1], s[2], s[3])
  \/ \E t \in tokens, e \in Emails, p \in NewUserPasswords : UsersCreate(t, e, p, "admin")
  \/ \E t \in tokens, i \in UserIds, u \in RoleInputs : UsersUpdate(t, i, u)
  \/ \E t \in tokens : Logout(t)

SpecRoles == Init /\ [][NextRoles]_vars

\* single sign-on with the handlers of routes/sso.js that keep the pending state in the
\* session
NextSSO ==
  \/ \E e \in SetupEmails, p \in SetupPasswords : Setup(e, p)
  \/ \E enabled \in BOOLEAN : SsoConfig(enabled, "idp1", TRUE)
  \/ \E n \in Attempts, b \in Browsers, i \in SsoIdentities : SsoLogin(n, b, i)
  \/ \E n \in Attempts, b \in Browsers, st \in States : SsoCallback(n, b, st)
  \/ \E t \in tokens : Me(t)

SpecSSO == Init /\ [][NextSSO]_vars

\* single sign-on with the handlers of routes/sso.js that keep one module-level codeVerifier
NextSSOModule ==
  \/ \E e \in SetupEmails, p \in SetupPasswords : Setup(e, p)
  \/ \E enabled \in BOOLEAN : SsoConfig(enabled, "idp1", TRUE)
  \/ \E n \in Attempts, b \in Browsers, i \in SsoIdentities : SsoLoginModule(n, b, i)
  \/ \E n \in Attempts, b \in Browsers, st \in States : SsoCallbackModule(n, b, st)
  \/ \E t \in tokens : Me(t)

SpecSSOModule == Init /\ [][NextSSOModule]_vars

\* sign-ons whose groups claim takes each of the forms the role mapping tells apart
RoleIdentities ==
  { [sub |-> "sub-b", email |-> "b@x", groups |-> g] :
      g \in { <<>>, <<GroupAdmin>>, <<GroupPowerUsers>>, <<GroupStaff>>, <<GroupManagers>>,
              <<GroupPowerUsers, GroupSysAdmins>> } }
NextSSORoles ==
  \/ SsoConfig(TRUE, "idp1", TRUE)
  \/ \E n \in Attempts, i \in RoleIdentities : SsoLogin(n, "b1", i)
  \/ \E n \in Attempts : SsoCallback(n, "b1", n)

SpecSSORoles == Init /\ [][NextSSORoles]_vars

\* one federated account signing in repeatedly with changing groups, and an administrator
\* editing its role in between
SyncIdentities ==
  { [sub |-> "sub-b", email |-> "b@x", groups |-> g] : g \in {<<GroupAdmin>>, <<GroupStaff>>} }
NextSSOSync ==
  \/ \E e \in SetupEmails, p \in SetupPasswords : Setup(e, p)
  \/ Login("a@x", "pw1")
  \/ SsoConfig(TRUE, "idp1", TRUE)
  \/ \E n \in Attempts, i \in SyncIdentities : SsoLogin(n, "b1", i)
  \/ \E n \in Attempts : SsoCallback(n, "b1", n)
  \/ \E t \in tokens, i \in UserIds, u \in RoleInputs : UsersUpdate(t, i, u)
  \/ \E t \in tokens : Logout(t)

SpecSSOSync == Init /\ [][NextSSOSync]_vars

\* one federated account signing in repeatedly, and an administrator deactivating and
\* reactivating accounts in between
NextSSOActive ==
  \/ \E e \in SetupEmails, p \in SetupPasswords : Setup(e, p)
  \/ SsoConfig(TRUE, "idp1", TRUE)
  \/ \E n \in Attempts : SsoLogin(n, "b1", [sub |-> "sub-b", email |-> "b@x", groups |-> <<GroupStaff>>])
  \/ \E n \in Attempts : SsoCallback(n, "b1", n)
  \/ \E t \in tokens, i \in UserIds, u \in UpdateInputs : UsersUpdate(t, i, u)
  \/ \E t \in tokens : Me(t)

SpecSSOActive == Init /\ [][NextSSOActive]_vars

\* first sign-ons of two identities whose emails share the local part, overlapping; each
\* identity signs on once
NamesakeIdentities == {i \in SsoIdentities : LocalPart(i.email) = "a"}
NextSSORace ==
  \/ \E enabled \in BOOLEAN : SsoConfig(enabled, "idp1", TRUE)
  \/ \E n \in Attempts, b \in Browsers, i \in NamesakeIdentities :
       (\A m \in Attempts : idp[m].identity.sub # i.sub) /\ SsoLogin(n, b, i)
  \/ \E r \in Pendings, n \in Attempts, b \in Browsers : SsoCallbackSelect(r, n, b, n)
  \/ \E r \in Pendings : SsoCallbackInsert(r)

SpecSSORace == Init /\ [][NextSSORace]_vars

\* password logins against accounts that single sign-on created
NextSSOPassword ==
  \/ \E e \in SetupEmails, p \in SetupPasswords : Setup(e, p)
  \/ SsoConfig(TRUE, "idp1", TRUE)
  \/ \E n \in Attempts : SsoLogin(n, "b1", [sub |-> "sub-b", email |-> "b@x", groups |-> <<GroupStaff>>])
  \/ \E n \in Attempts : SsoCallback(n, "b1", n)
  \/ \E i \in Idents, p \in Passwords : Login(i, p)

SpecSSOPassword == Init /\ [][NextSSOPassword]_vars

\* account management with every kind of role value a request body can carry: absent, one
\* of the three role names, or any other string
RoleValues == {UNDEFINED, "poweruser", "owner"}
RoleUpdates ==
  {[role |-> r, is_active |-> UNDEFINED, password |-> UNDEFINED] : r \in {"user", "owner"}}
NextAccounts ==
  \/ \E e \in SetupEmails, p \in SetupPasswords : Setup(e, p)
  \/ \E l \in OwnLogins : Login(l[1], l[2])
  \/ \E t \in tokens, e \in Emails, p \in NewUserPasswords, r \in RoleValues :
       UsersCreate(t, e, p, r)
  \/ \E t \in tokens, i \in UserIds, u \in RoleUpdates : UsersUpdate(t, i, u)
  \/ \E t \in tokens : Logout(t)

SpecAccounts == Init /\ [][NextAccounts]_vars

\* wrong-password logins that overlap, against an account whose threshold an administrator
\* has set to 1
InitLoginRace ==
  /\ users = [i \in UserIds |->
                IF i = 1 THEN [NoRow EXCEPT !.exists = TRUE, !.username = "a", !.email = "a@x",
                                            !.password_hash = "pw1", !.role = "admin",
                                            !.is_active = TRUE, !.created_at = 0]
                ELSE NoRow]
  /\ nextId = 2
  /\ settings = [o \in Owners |-> [k \in Keys |->
                   IF o = 0 /\ k = "max-login-attempts" THEN "1" ELSE NULL]]
  /\ backupCodes = [i \in UserIds |-> NoCodes]
  /\ tokens = {}
  /\ now = 0
  /\ verified = {}
  /\ exchanged = {}
  /\ resp = Idle
  /\ enforcedAt = [k \in EnforcementKeys |-> NoTime]
  /\ inflight = [r \in Reqs |-> NoRequest]
  /\ accepted = [i \in UserIds |-> [n \in 1..BackupCodeCount |-> 0]]
  /\ pending = [r \in Pendings |-> NoPending]
  /\ ssoConfig = [enabled |-> FALSE, issuerUrl |-> "", client |-> NULL]
  /\ oidcSession = [b \in Browsers |-> NoOidc]
  /\ codeVerifier = 0
  /\ idp = [a \in Attempts |-> NoAttempt]
  /\ refreshing = FALSE
  /\ refreshQueue = <<>>
  /\ clientToken = 0
  /\ calls = [c \in Callers |-> "idle"]
  /\ settled = "none"

NextLoginRace ==
  \/ \E r \in Pendings, i \in Idents, p \in Passwords : LoginCheck(r, i, p)
  \/ \E r \in Pendings : LoginCompare(r)
  \/ Tick

SpecLoginRace == InitLoginRace /\ [][NextLoginRace]_vars

\* password changes under the password policy
PasswordUpdates ==
  { [role |-> UNDEFINED, is_active |-> UNDEFINED, password |-> p] :
      p \in {"Str0ng!pw", "Str0ngpw1", "weak"} }
PasswordPolicyInputs == {<<"password-policy", "false", "system">>}
NextPasswords ==
  \/ \E e \in SetupEmails, p \in SetupPasswords : Setup(e, p)
  \/ \E i \in SetupEmails, p \in Passwords \cup {"weak"} : Login(i, p)
  \/ \E t \in tokens, s \in PasswordPolicyInputs : SettingsPut(t, s[1], s[2], s[3])
  \/ \E t \in tokens, i \in UserIds, u \in PasswordUpdates : UsersUpdate(t, i, u)
  \/ \E t \in tokens : Logout(t)

SpecPasswords == Init /\ [][NextPasswords]_vars

\* password logins during which store queries may fail, under lockout and enforcement
Faults == SUBSET {"lockout", "policy"}
NextLoginFaults ==
  \/ \E e \in SetupEmails, p \in SetupPasswords : Setup(e, p)
  \/ \E i \in SetupEmails, p \in Passwords, f \in Faults : LoginUnder(i, p, f)
  \/ \E t \in tokens, s \in LockoutInputs \cup EnforcementInputs :
       SettingsPut(t, s[1], s[2], s[3])
  \/ \E t \in tokens : Me(t)

SpecLoginFaults == Init /\ [][NextLoginFaults]_vars

\* users writing and deleting their own settings rows, next to enrollment and enforcement
OwnSettingsInputs ==
  {<<"twofa_enabled", "false">>, <<"twofa_enabled", "true">>, <<"2faEnrollmentRequired", "false">>}
OwnSettingsKeys == {"twofa_enabled", "twoFactorSecret", "twoFactorBackupCodes", "2faEnrollmentRequired"}
NextOwnSettings ==
  \/ \E e \in SetupEmails, p \in SetupPasswords : Setup(e, p)
  \/ \E l \in OwnLogins : Login(l[1], l[2])
  \/ \E t \in tokens, s \in EnforcementInputs : SettingsPut(t, s[1], s[2], s[3])
  \/ \E t \in tokens : TwoFAVerify(t, Totp("S1", Counter), "S1")
  \/ \E t \in tokens, i \in UserIds : ForceEnroll(t, i)
  \/ \E t \in tokens, s \in OwnSettingsInputs : SettingsPut(t, s[1], s[2], "user")
  \/ \E t \in tokens, k \in OwnSettingsKeys : SettingsDelete(t, k, "user")

SpecOwnSettings == Init /\ [][NextOwnSettings]_vars

\* accounts created by an administrator that edit accounts themselves
PrivilegeUpdates ==
  { [role |-> "admin", is_active |-> UNDEFINED, password |-> UNDEFINED],
    [role |-> UNDEFINED, is_active |-> "0", password |-> UNDEFINED] }
NextSelfService ==
  \/ \E e \in SetupEmails, p \in SetupPasswords : Setup(e, p)
  \/ \E l \in OwnLogins : Login(l[1], l[2])
  \/ \E t \in tokens, e \in Emails, p \in NewUserPasswords : UsersCreate(t, e, p, UNDEFINED)
  \/ \E t \in tokens, i \in UserIds, u \in PrivilegeUpdates : UsersUpdate(t, i, u)
  \/ \E t \in tokens : Me(t)

SpecSelfService == Init /\ [][NextSelfService]_vars

\* setup requests that overlap
NextSetup ==
  \/ \E r \in Reqs, e \in Emails, p \in SetupPasswords : SetupCheck(r, e, p)
  \/ \E r \in Reqs : SetupInsert(r)
  \/ \E l \in OwnLogins : Login(l[1], l[2])
  \/ \E t \in tokens : Me(t)
  \/ \E t \in tokens : Logout(t)
  \/ Tick

SpecSetup == Init /\ [][NextSetup]_vars

\* configuration of single sign-on, with discovery that may fail, and login attempts
NextSSOConfig ==
  \/ \E enabled \in BOOLEAN, u \in IssuerUrls, discovers \in BOOLEAN :
       SsoConfig(enabled, u, discovers)
  \/ \E n \in Attempts, i \in SsoIdentities : SsoLogin(n, "b1", i)
  \/ \E n \in Attempts : SsoCallback(n, "b1", n)

SpecSSOConfig == Init /\ [][NextSSOConfig]_vars

\* one ApiClient and the overlapping calls of its refreshTokenIfNeeded
NextClient ==
  \/ \E c \in Callers : Call(c)
  \/ \E c \in Callers, o \in FetchOutcomes : FetchSettles(c, o)
  \/ \E c \in Callers, o \in JsonOutcomes : JsonSettles(c, o)
  \/ \E c \in Callers : Return(c)
  \/ ClearToken
  \/ SetToken

SpecClient == Init /\ [][NextClient]_vars
\* a request that was sent settles: the browser answers every fetch and every body read
SpecClientLive ==
  /\ SpecClient
  /\ WF_vars(\E c \in Callers, o \in FetchOutcomes : FetchSettles(c, o))
  /\ WF_vars(\E c \in Callers, o \in JsonOutcomes : JsonSettles(c, o))

\* the IP allow-list: an administrator configures it, requests arrive from several addresses
NextAllowlist ==
  \/ Tick
  \/ \E e \in SetupEmails, p \in SetupPasswords : Setup(e, p)
  \/ \E l \in OwnLogins : Login(l[1], l[2])
  \/ \E t \in tokens, s \in AllowlistInputs, ip \in ClientIPs :
       settings[0][s[1]] = NULL /\ SettingsPutFrom(t, s[1], s[2], "system", ip)
  \/ \E t \in tokens, ip \in ClientIPs : MeFrom(t, ip)

SpecAllowlist == Init /\ [][NextAllowlist]_vars

\* ====================================================================== properties
\* the lockout state of an account as the policy states it: the failure count has reached
\* the threshold and less than the lockout duration has passed since the last failure
LockedNow(id) ==
  /\ users[id].failed_attempts >= getSecuritySetting("max-login-attempts", DefaultMaxLoginAttempts)
  /\ users[id].last_failed_attempt # NoTime
  /\ now - users[id].last_failed_attempt
       < getSecuritySetting("lockout-duration", DefaultLockoutDuration)

\* the operations behind authenticateToken of routes/auth.js
AuthTokenOps == {"me", "refresh", "2fa-complete", "logout", "settings.put", "2fa.verify-setup"}
SuccessCodes == {"Authenticated", "SecondFactorRequired", "EnrollmentRequired"}

\* C1: a request behind authenticateToken that bears an unexpired token is answered
\* UserNotFound when the token's user is no longer in the store and AccountDisabled when
\* the account is inactive; in both cases the handler does not run, writes nothing and
\* returns no token.
C1_StaleTokenRejected ==
  (resp.op \in AuthTokenOps /\ now < resp.req.exp) =>
    /\ resp.acct = "missing" =>
         resp.code = "UserNotFound" /\ ~resp.reached /\ ~resp.wrote /\ resp.tok = NoToken
    /\ resp.acct = "inactive" =>
         resp.code = "AccountDisabled" /\ ~resp.reached /\ ~resp.wrote /\ resp.tok = NoToken

C1_Witness ==
  /\ resp.op = "me" /\ resp.req.kind = "session" /\ now < resp.req.exp
  /\ resp.acct = "missing" /\ resp.code = "UserNotFound"

\* C2: every operation authorized by a session token, the user-management operations
\* included, rejects without running its handler or writing to the store when the
\* token's account is missing or inactive.
C2_EveryOperationReResolves ==
  (resp.req.kind = "session" /\ resp.acct \in {"missing", "inactive"}) =>
    (~resp.reached /\ ~resp.wrote)

\* C3: a request that presents a pending verification token returns a full session token
\* only if /verify-login has answered verified for that user since the password login.
C3_SessionOnlyAfterVerify ==
  (resp.req.kind = "pending" /\ resp.tok.kind = "session") => resp.verified

\* C4: a pending enrollment token presented to any operation other than begin and confirm
\* enrollment is rejected: the handler does not run, nothing is written, no token returned.
C4_EnrollmentTokenOnlyEnrolls ==
  (resp.req.purpose = "2fa-enrollment" /\ resp.op \notin {"2fa.setup", "2fa.verify"}) =>
    (~resp.reached /\ ~resp.wrote /\ resp.tok = NoToken)

\* C5: a 2fa-complete request that presents a pending token which has already been
\* exchanged is rejected and returns no token.
C5_PendingTokenOneShot ==
  (resp.op = "2fa-complete" /\ resp.again /\ now < resp.req.exp) =>
    (resp.code # "ok" /\ resp.tok = NoToken)

C7_LockoutBeforeCompare ==
  [][\A i \in Idents, p \in Passwords :
       LET id == FindUser(i) IN
       (Login(i, p) /\ id # 0 /\ LockedNow(id))
       => /\ resp'.code = "AccountLocked"
          /\ ~resp'.compared /\ ~resp'.recorded
          /\ users' = users
    ]_vars

C7_Witness ==
  /\ resp.op = "login" /\ resp.code = "AccountLocked" /\ ~resp.compared
  /\ resp.password # users[resp.uid].password_hash

\* an (identifier, password) pair that is not valid: the identifier is unknown, or it is
\* known and the password is not the account's
InvalidPair(i, p) ==
  FindUser(i) = 0 \/ (users[FindUser(i)].password_hash # NULL /\ users[FindUser(i)].password_hash # p)

\* C8 as stated: every invalid pair gets the generic InvalidCredentials answer, so that a
\* known identifier can never be told from an unknown one.
C8_InvalidPairsIndistinguishable ==
  [][\A i \in Idents, p \in Passwords :
       (Login(i, p) /\ isSystemInitialized /\ InvalidPair(i, p))
       => (resp'.code = "InvalidCredentials" /\ resp'.tok = NoToken)
    ]_vars

\* C8 amended: every invalid pair whose account is not locked (and every pair with an
\* unknown identifier) gets the generic InvalidCredentials answer and no token; a locked
\* account answers AccountLocked.
C8_InvalidPairsGenericUnlessLocked ==
  [][\A i \in Idents, p \in Passwords :
       (Login(i, p) /\ isSystemInitialized /\ InvalidPair(i, p))
       => IF FindUser(i) # 0 /\ LockedNow(FindUser(i))
            THEN resp'.code = "AccountLocked" /\ resp'.tok = NoToken
            ELSE resp'.code = "InvalidCredentials" /\ resp'.tok = NoToken /\ tokens' = tokens
    ]_vars

C8_Witness ==
  /\ resp.op = "login" /\ resp.code = "InvalidCredentials" /\ resp.uid = 0
  /\ \E j \in UserIds : users[j].exists /\ users[j].failed_attempts > 0

\* C9: a login against an inactive account that is not locked is answered
\* InvalidCredentials, with the failure recorded, when the password is wrong and
\* AccountDisabled when it is right; no login against an inactive account issues a token.
C9_InactiveAccount ==
  [][\A i \in Idents, p \in Passwords :
       LET id == FindUser(i) IN
       (Login(i, p) /\ id # 0 /\ ~users[id].is_active /\ users[id].password_hash # NULL)
       => /\ tokens' = tokens /\ resp'.tok = NoToken
          /\ ~LockedNow(id) =>
               IF users[id].password_hash = p
                 THEN resp'.code = "AccountDisabled"
                 ELSE /\ resp'.code = "InvalidCredentials"
                      /\ users'[id].failed_attempts >= 1
                      /\ users'[id].last_failed_attempt = now
    ]_vars

C9_Witness ==
  /\ resp.op = "login" /\ resp.code = "AccountDisabled"
  /\ ~users[resp.uid].is_active /\ resp.tok = NoToken

\* C10: a correct-password login to an active, unlocked account is answered
\* EnrollmentRequired with an enrollment token when 2FA is required and the user is not
\* enrolled, SecondFactorRequired with a pending token when the user is enrolled, and
\* Authenticated with a session token otherwise; required means the all-users mode, or the
\* admins-only mode for an admin.
PolicyRequires(id) ==
  \/ settings[0]["enforce-2fa-all-users"] = "true"
  \/ settings[0]["enforce-2fa-admins-only"] = "true" /\ users[id].role = "admin"
Enrolled(id) == settings[id]["twofa_enabled"] = "true"
ExpectedKind(id) ==
  IF PolicyRequires(id) /\ ~Enrolled(id) THEN "enrollment"
  ELSE IF Enrolled(id) THEN "pending"
  ELSE "session"

C10_OutcomeByPolicy ==
  [][\A i \in Emails, p \in Passwords :
       LET id == FindUser(i) IN
       ( /\ Login(i, p)
         /\ id # 0 /\ users[id].password_hash = p
         /\ users[id].is_active /\ ~LockedNow(id) )
       => /\ resp'.tok.kind = ExpectedKind(id)
          /\ resp'.code = (CASE ExpectedKind(id) = "enrollment" -> "EnrollmentRequired"
                             [] ExpectedKind(id) = "pending" -> "SecondFactorRequired"
                             [] OTHER -> "Authenticated")
    ]_vars
\* C11: an EnrollmentRequired answer reports forced-immediate enrollment exactly when the
\* account was created before the enforcement was last switched on or an administrator
\* has flagged the account; otherwise it reports the grace period.
LastEnabledAt ==
  CHOOSE u \in {enforcedAt[k] : k \in EnforcementKeys} : \A k \in EnforcementKeys : enforcedAt[k] <= u
Predates(id) == users[id].created_at < LastEnabledAt
Flagged(id) == settings[id]["2faEnrollmentRequired"] = "true"

C11_ForcedIffPredatesOrFlagged ==
  (resp.op = "login" /\ resp.code = "EnrollmentRequired") =>
    (resp.enrollmentRequired <=> (Predates(resp.uid) \/ Flagged(resp.uid)))
\* C12: a login-verify with a backup code that the user's stored list holds is answered
\* verified and takes the code off the list; a login-verify with a backup code the list
\* does not hold is answered InvalidCode; and a code comes onto a list only by a confirmed
\* enrollment.  So a consumed code is refused until the enrollment changes.
Holds(codes, c) == \E k \in 1..Len(codes) : codes[k] = c

C12_BackupCodeOneShot ==
  [][ /\ \A u \in UserIds, c \in CodeInputs :
           (VerifyLogin(u, c) /\ c.type = "backup") =>
             IF settings[u]["twoFactorSecret"] # NULL /\ Holds(backupCodes[u].codes, c)
               THEN resp'.code = "ok" /\ ~Holds(backupCodes'[u].codes, c)
               ELSE resp'.code = "InvalidCode" /\ backupCodes' = backupCodes
      /\ \A u \in UserIds, n \in 1..BackupCodeCount :
           (Holds(backupCodes'[u].codes, BackupCode(n)) /\ ~Holds(backupCodes[u].codes, BackupCode(n)))
             => (resp'.op \in {"2fa.verify", "2fa.verify-setup"} /\ resp'.code = "ok")
    ]_vars

\* the second login-verify with a consumed backup code, refused
C12_Witness ==
  /\ resp.op = "2fa.verify-login" /\ resp.code = "InvalidCode" /\ resp.presented = BackupCode(1)
  /\ settings[resp.uid]["twoFactorSecret"] # NULL
  /\ backupCodes[resp.uid].present
  /\ Len(backupCodes[resp.uid].codes) = BackupCodeCount - 1
\* C13: however login-verify requests of one user interleave, no backup code is accepted
\* more than once, and once no request is in flight every accepted code is off the stored
\* list.
C13_AcceptedAtMostOnce ==
  /\ \A u \in UserIds, n \in 1..BackupCodeCount : accepted[u][n] <= 1
  /\ (\A r \in Reqs : inflight[r].pc = "idle") =>
       \A u \in UserIds, n \in 1..BackupCodeCount :
         accepted[u][n] >= 1 => ~Holds(backupCodes[u].codes, BackupCode(n))
\* C14: beginning an enrollment stores nothing; a confirm-enrollment whose code does not
\* verify is answered InvalidCode and leaves the flag, the secret and the backup codes as
\* they were (absent for an account that was not enrolled); a confirm-enrollment whose
\* code verifies leaves the flag true, the secret stored and ten distinct backup codes.
Confirms(t, c, s) ==
  \/ TwoFAVerify(t, c, s) /\ authenticateFor2FAEnrollment(t) = "ok"
  \/ TwoFAVerifySetup(t, c, s) /\ authenticateToken(t) = "ok"

C14_EnrollmentAllOrNothing ==
  [][ /\ \A t \in tokens : (TwoFASetup(t) \/ TwoFAGenerateSecret(t)) =>
           (settings' = settings /\ backupCodes' = backupCodes)
      /\ \A t \in tokens, c \in CodeInputs, s \in Secrets :
           Confirms(t, c, s) =>
             IF TotpVerify(s, c)
               THEN /\ resp'.code = "ok"
                    /\ settings'[t.id]["twofa_enabled"] = "true"
                    /\ settings'[t.id]["twoFactorSecret"] = s
                    /\ backupCodes'[t.id].present
                    /\ Len(backupCodes'[t.id].codes) = 10
                    /\ \A j, k \in 1..Len(backupCodes'[t.id].codes) :
                         backupCodes'[t.id].codes[j] = backupCodes'[t.id].codes[k] => j = k
               ELSE /\ resp'.code = "InvalidCode"
                    /\ settings' = settings /\ backupCodes' = backupCodes
    ]_vars

\* a confirm-enrollment with a wrong code on an account that is not enrolled
C14_Witness ==
  /\ resp.op \in {"2fa.verify", "2fa.verify-setup"} /\ resp.code = "InvalidCode"
  /\ resp.presented.type = "totp"
  /\ settings[resp.uid]["twofa_enabled"] = NULL
  /\ settings[resp.uid]["twoFactorSecret"] = NULL
  /\ ~backupCodes[resp.uid].present
\* C15: once a user's Disable has been answered, the user's secret, backup codes and
\* enrollment flag are absent, so that a password login treats the user as not enrolled.
C15_DisableRemovesAll ==
  (resp.op = "2fa.disable" /\ resp.code = "ok") =>
    /\ settings[resp.uid]["twoFactorSecret"] = NULL
    /\ ~backupCodes[resp.uid].present
    /\ settings[resp.uid]["twofa_enabled"] = NULL
    /\ ~twoFAEnabled(resp.uid)
\* C16: in every state and for every user the enrollment flag is set exactly when a secret
\* is stored, and backup codes are stored only with the flag set.
C16_FlagIffSecret ==
  \A u \in UserIds :
    /\ settings[u]["twofa_enabled"] = "true" <=> settings[u]["twoFactorSecret"] # NULL
    /\ backupCodes[u].present => settings[u]["twofa_enabled"] = "true"
\* C17: at confirm-enrollment and at login-verify, a code generated from the secret at the
\* server's time or 30 seconds to either side of it is accepted, and a code generated 90
\* seconds to either side is rejected.
Near == {-30, 0, 30}
Far == {-90, 90}
Outcome(d, code) == (d \in Near => code = "ok") /\ (d \in Far => code = "InvalidCode")

C17_TotpWindow ==
  [][\A s \in Secrets, d \in Offsets :
       /\ \A t \in tokens :
            (TwoFAVerify(t, GeneratedAt(s, d), s) \/ TwoFAVerifySetup(t, GeneratedAt(s, d), s))
              => Outcome(d, resp'.code)
       /\ \A u \in UserIds :
            (VerifyLogin(u, GeneratedAt(s, d)) /\ settings[u]["twoFactorSecret"] = s)
              => Outcome(d, resp'.code)
    ]_vars

\* a login-verify with the code of 90 seconds ahead, rejected
C17_Witness ==
  /\ resp.op = "2fa.verify-login" /\ resp.code = "InvalidCode"
  /\ settings[resp.uid]["twoFactorSecret"] # NULL
  /\ resp.presented = GeneratedAt(settings[resp.uid]["twoFactorSecret"], 90)
\* C18: the identity attached to a request that a session token authorizes carries the
\* role the store holds for the user when the request arrives, and so does the token a
\* refresh returns.
C18_RoleFromStore ==
  /\ (resp.req.kind = "session" /\ resp.reached) => resp.role = resp.dbRole
  /\ (resp.op = "refresh" /\ resp.code = "ok") => resp.tok.role = resp.dbRole
\* C19: a full session token, whichever operation returns it, expires session-timeout
\* seconds after it was issued, session-timeout being the configured policy value
\* (default 3600).
C19_SessionTimeoutExpiry ==
  resp.tok.kind = "session" =>
    resp.tok.exp = now + getSecuritySetting("session-timeout", DefaultSessionTimeout)

\* C20: a callback that arrives in the browser that initiated its attempt is validated
\* and exchanged with the state and verifier generated when that attempt was initiated:
\* initiating another attempt has not replaced them.
OwnCallback ==
  /\ resp.op = "sso.callback"
  /\ resp.code # "sso_not_configured"
  /\ resp.browser = idp[resp.attempt].browser
C20_PendingStatePerAttempt ==
  OwnCallback => /\ resp.usedVerifier = resp.attempt
                 /\ idp[resp.attempt].state # 0 => resp.usedState = resp.attempt

\* C21: a callback that finds in its session no pending state matching its query (none
\* stored, or a state that differs from the query's) is rejected: the code is not
\* exchanged, no account is created or updated and no token is issued.
NoMatchingPending ==
  /\ resp.op = "sso.callback"
  /\ resp.code # "sso_not_configured"
  /\ resp.usedState = 0 \/ resp.usedState # resp.paramsState
C21_CallbackNeedsPendingState ==
  NoMatchingPending => /\ resp.code = "sso_failed"
                       /\ ~resp.redeemed
                       /\ ~resp.wrote
                       /\ resp.tok = NoToken

\* C22: when discovery fails while a configuration is applied, no client is left: neither
\* a half-initialised one nor the one built from an earlier configuration.
C22_FailedDiscoveryLeavesNoClient ==
  (resp.op = "sso.config" /\ resp.code = "InvalidOidcConfiguration")
    => ssoConfig.client = NULL

\* C23: after a callback that ends in failure (the exchange fails, or the store refuses
\* the account) the session of its browser holds no pending single sign-on state.
C23_FailedCallbackClearsPending ==
  (resp.op = "sso.callback" /\ resp.code \in {"sso_failed", "create_failed"})
    => resp.pending = NoOidc

\* C24: the role of a successful callback follows its groups claim: ["admin"] gives
\* admin, ["power-users"] gives poweruser, no matching group (or no groups) gives user,
\* and an admin group together with a poweruser group gives admin.
GroupMatches(groups, names) ==
  \E i \in 1..Len(groups) : \E n \in names : includes(toLowerCase(groups[i]), n)
CallbackOk == resp.op = "sso.callback" /\ resp.code = "ok"
C24_RoleMapping ==
  CallbackOk =>
    LET groups == idp[resp.attempt].identity.groups
        role == resp.tok.role
    IN /\ groups = <<GroupAdmin>> => role = "admin"
       /\ groups = <<GroupPowerUsers>> => role = "poweruser"
       /\ (~GroupMatches(groups, adminGroups) /\ ~GroupMatches(groups, powerUserGroups)) => role = "user"
       /\ (GroupMatches(groups, adminGroups) /\ GroupMatches(groups, powerUserGroups)) => role = "admin"
C24_Witness ==
  /\ CallbackOk
  /\ idp[resp.attempt].identity.groups = <<GroupPowerUsers, GroupSysAdmins>>
  /\ resp.tok.role = "admin"

\* C26: a successful callback of an existing federated account leaves the stored role and
\* groups equal to those of its claims, and its token carries that role, whatever the
\* stored role was before.
C26_RoleResyncedOnEveryLogin ==
  (CallbackOk /\ resp.dbRole # NULL) =>
    LET identity == idp[resp.attempt].identity
    IN /\ users[resp.uid].role = MappedRole(identity.groups)
       /\ users[resp.uid].groups = identity.groups
       /\ resp.tok.role = users[resp.uid].role
C26_Witness ==
  /\ CallbackOk
  /\ resp.dbRole = "user"
  /\ idp[resp.attempt].identity.groups = <<GroupAdmin>>
  /\ users[resp.uid].role = "admin"
  /\ \E a \in Attempts : a # resp.attempt /\ idp[a].redeemed
                          /\ idp[a].identity.groups = <<GroupAdmin>>

\* C25: a first sign-on creates the account under the local part of its email when no
\* account has that username, and under the local part followed by 1 when one has it
\* and none has the name with 1.
FirstSuffixed(baseUsername) == IF baseUsername = "a" THEN "a1" ELSE "b1"
C25_UsernameSuffixFromOne ==
  (CallbackOk /\ resp.dbRole = NULL) =>
    LET baseUsername == LocalPart(idp[resp.attempt].identity.email)
        held(name) == \E i \in UserIds \ {resp.uid} :
                         users[i].exists /\ users[i].username = name
        username == users[resp.uid].username
    IN /\ ~held(baseUsername) => username = baseUsername
       /\ (held(baseUsername) /\ ~held(FirstSuffixed(baseUsername)))
            => username = FirstSuffixed(baseUsername)

\* C27: setup requests, however they interleave, create at most one account between
\* them; an account created by setup has role admin and a password hash.
CreatedBySetup == {pending[r].id : r \in {q \in Reqs : pending[q].pc = "setup.created"}}
C27_SetupCreatesAtMostOne ==
  /\ Cardinality(CreatedBySetup) <= 1
  /\ \A i \in CreatedBySetup : users[i].role = "admin" /\ users[i].password_hash # NULL

\* C28: the role of every account is one of admin, poweruser and user.
C28_RoleEnumerated ==
  \A i \in UserIds : users[i].exists => users[i].role \in {"admin", "poweruser", "user"}

\* C29: however wrong-password logins against one account interleave, the password
\* comparisons made within one lockout window number at most the threshold plus two.
Comparisons(id) ==
  Cardinality({r \in Pendings : pending[r].pc = "login.compared" /\ pending[r].id = id})
C29_ExtraGuessesBounded ==
  \A id \in UserIds :
    Comparisons(id) <= getSecuritySetting("max-login-attempts", DefaultMaxLoginAttempts) + 2

\* C30: while the password policy is enabled an update whose new password fails it is
\* answered with an error and leaves the stored password hash as it was; while the policy
\* is disabled an authorized update stores every new password.
C30_WeakPasswordLeavesHash ==
  [][\A t \in tokens, i \in UserIds, u \in PasswordUpdates :
       (UsersUpdate(t, i, u) /\ resp'.reached /\ users[i].exists) =>
         /\ (policyEnabled /\ ~MeetsPolicy(u.password))
              => /\ resp'.code = "PasswordPolicy"
                 /\ users'[i].password_hash = users[i].password_hash
         /\ ~policyEnabled => users'[i].password_hash = u.password]_vars


\* ---------------------------------------------------------------------------- C31
\* the number a string of decimal digits denotes
RECURSIVE Decimal(_)
Decimal(chars) ==
  IF Len(chars) = 0 THEN 0
  ELSE 10 * Decimal(SubSeq(chars, 1, Len(chars) - 1))
       + (CHOOSE d \in 0..9 : <<"0", "1", "2", "3", "4", "5", "6", "7", "8", "9">>[d + 1] = chars[Len(chars)])
Octets(address) == [k \in 1..4 |-> Decimal(split(address, ".")[k])]
\* the address shares its first `bits` bits with the network
InCidr(address, network, bits) ==
  \A k \in 1..4 :
    LET covered == IF bits >= 8 * k THEN 8 ELSE IF bits <= 8 * (k - 1) THEN 0 ELSE bits - 8 * (k - 1)
    IN Octets(address)[k] \div 2^(8 - covered) = Octets(network)[k] \div 2^(8 - covered)
\* the client address equals a listed address or lies inside a listed CIDR range
Listed(clientIP, value) ==
  \E i \in 1..Len(split(value, ",")) :
    LET entry == trim(split(value, ",")[i])
    IN IF includes(entry, <<"/">>)
       THEN InCidr(clientIP, split(entry, "/")[1], Decimal(split(entry, "/")[2]))
       ELSE clientIP = entry
\* C31: with the allow-list enabled and a list configured, a request with a valid token of
\* an active user reaches the handler only from a listed address or from inside a listed
\* CIDR range; from every other address it is answered IPNotAllowed and does not reach it.
C31_OnlyListedAddresses ==
  (/\ resp.op = "me.from"
   /\ ipWhitelistEnabled
   /\ settings[0]["allowed-ips"] # NULL
   /\ authenticateToken(resp.req) = "ok")
  => LET listed == Listed(Chars(resp.ip), Chars(settings[0]["allowed-ips"]))
     IN /\ resp.reached => listed
        /\ ~listed => (resp.code = "IPNotAllowed" /\ ~resp.reached)

\* ---------------------------------------------------------------------------- C32
\* C32: a successful callback of an existing federated account leaves its stored active
\* flag at 1, also when the account was deactivated when the callback arrived, and returns
\* a full session token for that account.
C32_SsoLoginReactivates ==
  (CallbackOk /\ resp.dbRole # NULL) =>
    /\ users[resp.uid].is_active
    /\ resp.tok \in tokens
    /\ resp.tok.id = resp.uid
    /\ resp.tok.kind = "session"
    /\ resp.tok.purpose = UNDEFINED
C32_Witness ==
  /\ CallbackOk
  /\ resp.acct = "inactive"
  /\ users[resp.uid].is_active
  /\ resp.tok.id = resp.uid

\* ---------------------------------------------------------------------------- C33
\* the refresh requests that have been sent and have not settled
InFlight == {c \in Callers : calls[c] \in {"fetch", "json"}}
\* C33: at most one refresh request is in flight, and a call that started while one was in
\* flight holds no request of its own: it is in the wait queue.
C33_OneRefreshInFlight ==
  /\ Cardinality(InFlight) <= 1
  /\ \A c \in Callers : calls[c] = "waiting" =>
        /\ c \notin InFlight
        /\ \E i \in 1..Len(refreshQueue) : refreshQueue[i] = c
        /\ Cardinality(InFlight) = 1
C33_Witness ==
  /\ Cardinality(InFlight) = 1
  /\ Cardinality({c \in Callers : calls[c] = "waiting"}) = 2

\* ---------------------------------------------------------------------------- C40
\* C40: a call that waits is resumed once the refresh it waits for has settled, however it
\* settled, and whenever no refresh is in flight the flag is false and the queue is empty.
C40_WaitersResumed ==
  /\ \A c \in Callers : (calls[c] = "waiting") ~> (calls[c] = "resumed")
  /\ [](InFlight = {} => (~refreshing /\ refreshQueue = <<>>
                           /\ \A c \in Callers : calls[c] # "waiting"))
C40_Witness ==
  /\ settled = "threw"
  /\ \E c \in Callers : calls[c] = "resumed"
  /\ ~refreshing
  /\ refreshQueue = <<>>

\* ---------------------------------------------------------------------------- C34
\* C34: an update request made with a token whose role is not admin leaves the role and the
\* active flag of every account, the requester's own included, as they were.
C34_NonAdminKeepsRoleAndFlag ==
  [][\A t \in tokens, i \in UserIds, u \in PrivilegeUpdates :
       (UsersUpdate(t, i, u) /\ JwtValid(t) /\ t.role # "admin") =>
         \A j \in UserIds : /\ users'[j].role = users[j].role
                            /\ users'[j].is_active = users[j].is_active]_vars

\* ---------------------------------------------------------------------------- C35
\* how a login treats an account: as enrolled, and as required to enroll before anything else
LoginTreats(id) == <<twoFAEnabled(id), is2FARequired(id) /\ enrollmentRequired(id)>>
\* C35: a settings write or delete a user makes in their own scope leaves the way a login
\* treats that user, as enrolled or as required to enroll, as it was.
C35_SettingsLeaveSecondFactor ==
  [][\A t \in tokens :
       (\/ \E s \in OwnSettingsInputs : SettingsPut(t, s[1], s[2], "user")
        \/ \E k \in OwnSettingsKeys : SettingsDelete(t, k, "user"))
       => LoginTreats(t.id)' = LoginTreats(t.id)]_vars

\* ---------------------------------------------------------------------------- C36
\* C36: a login initiation or a callback handled while ssoConfig.enabled is false returns no
\* token and writes no account.
C36_DisabledSsoDoesNothing ==
  (resp.op \in {"sso.login", "sso.callback"} /\ ~ssoConfig.enabled) =>
    /\ resp.tok = NoToken
    /\ ~resp.wrote

\* ---------------------------------------------------------------------------- C37
\* what the login answers when every query succeeds
WouldBeLocked(ident) == FindUser(ident) # 0 /\ isLocked(FindUser(ident))
WouldRequireEnrollment(ident, password) ==
  LET id == FindUser(ident)
  IN /\ id # 0
     /\ ~isLocked(id)
     /\ users[id].password_hash # NULL
     /\ bcryptCompare(password, users[id].password_hash)
     /\ LoginActive(id)
     /\ is2FARequired(id) /\ ~twoFAEnabled(id)
\* C37: a login during which the lockout query or the enforcement query fails compares no
\* password where the login would have answered AccountLocked, and returns no session
\* token where it would have answered EnrollmentRequired.
C37_StoreErrorsFailClosed ==
  [][\A i \in SetupEmails, p \in Passwords, f \in Faults \ {{}} :
       LoginUnder(i, p, f) =>
         /\ WouldBeLocked(i) => ~resp'.compared
         /\ WouldRequireEnrollment(i, p) => resp'.tok.kind # "session"]_vars

\* ---------------------------------------------------------------------------- C38
\* C38: a password login against an account without a password hash returns no token and
\* is answered like a wrong password.
C38_NoHashNoPasswordLogin ==
  (resp.op = "login" /\ resp.uid # 0 /\ users[resp.uid].password_hash = NULL) =>
    /\ resp.tok = NoToken
    /\ resp.code = WrongPasswordCode

\* ---------------------------------------------------------------------------- C39
\* C39: however the first sign-ons of two identities with one local part interleave, no
\* callback ends in create_failed, a callback that has ended has created an account and
\* returned its token, and no two accounts have the same username.
C39_NamesakesBothCreated ==
  /\ \A r \in Pendings : pending[r].pc # "sso.failed"
  /\ \A r \in Pendings : pending[r].pc = "sso.created" =>
        /\ users[pending[r].id].exists
        /\ users[pending[r].id].username = pending[r].username
        /\ \E t \in tokens : t.id = pending[r].id
  /\ \A i, j \in UserIds :
        (i # j /\ users[i].exists /\ users[j].exists) => users[i].username # users[j].username

====
